---- MODULE Spec2Model ----
(***************************************************************************)
(* Focus groups, group containers and the constrained tree walk of         *)
(* core/src/Focusable.ts, as a state machine.                              *)
(*                                                                         *)
(* The program state is carried by the variables below.  Every method of   *)
(* the source is an operator from a state record (the fields are the       *)
(* variables) to the state record after the call, so that a handler that   *)
(* calls several methods is the composition of their operators.            *)
(***************************************************************************)
EXTENDS Integers, Sequences, FiniteSets, TLC

\* undefined (a pointer, an id) and null (a node); ids and nodes start at 1.
None == 0
Null == None

(* ------------------------------ bounds -------------------------------- *)
\* Number of Group objects ever constructed ('fg' + ++_lastId).
MaxGroups == 4
\* Number of Container objects ever constructed ('fgc' + ++_lastId).
MaxContainers == 2
\* Number of operations of the application and of the environment (calls of
\* the public methods, focus changes, tree changes, scroll events) in one
\* behaviour; timers and signals in flight are not counted.
MaxOps == 3
MaxLayerIds == 2

\* One slot more than the bound, so that a constructor that would exceed the
\* bound can be evaluated and its step refused (see WithinBounds).
GroupIds == 1..(MaxGroups + 1)
ContainerIds == 1..(MaxContainers + 1)

\* Types.ElementVisibility; an id absent from a visibility mapping reads as
\* Invisible everywhere the source reads the mapping.
Invisible == "Invisible"
PartiallyVisible == "PartiallyVisible"
Visible == "Visible"
ElementVisibility == {Invisible, PartiallyVisible, Visible}

\* Types.FocusableGroupFocusLimit
FocusLimit == {"Unlimited", "Limited", "LimitedTrapFocus"}

(* ------------------------------- nodes -------------------------------- *)
\* Children of one parent are ordered by node number.
Nodes == 1..8
\* mainWindow.document.body, the default context of the find operations.
Body == 1
\* The body of the embedded document wired up by setupFocusableInIFrame.
IFrameBody == 7
\* Where every node sits while it is attached.
HomeParent == <<Null, 1, 1, 1, 3, 3, Null, 7>>
\* The nodes of the embedded document.
InIFrame(n) == n \in {7, 8}

VARIABLES
    parentElement,     \* node -> parent node or Null (the tree, mutable)
    nodeAttrs,         \* node -> [matches, tabIndexNeg, hidden, ariaHidden]
    ahGroup,           \* node -> ah.focusableGroup (a group id or None)
    ahContainer,       \* node -> ah.focusableGroupContainer (or None)
    ahFocusable,       \* node -> ah.focusable props [isDefault, isIgnored]
    ahLayer,           \* node -> ah.modalityLayer: a layer record, NoLayer for none
    currentLayerId,    \* root.getCurrentLayerId(), None for undefined
    lastGroupId,       \* _lastId as counted in 'fg' ids
    lastContainerId,   \* _lastId as counted in 'fgc' ids
    group,             \* group id -> FocusableGroup fields
    cont,              \* container id -> FocusableGroupContainer fields
    containers,        \* FocusableGroupContainer._containers (ids)
    focusedGroups,     \* _focusedGroups (ids)
    engine,            \* Focusable fields and listener registration
    pending,           \* mutation signals dispatched and not yet handled
    obs,               \* what the last step did that a caller can observe
    ops                \* application and environment operations so far

vars == <<parentElement, nodeAttrs, ahGroup, ahContainer, ahFocusable, ahLayer,
          currentLayerId, lastGroupId, lastContainerId, group, cont,
          containers, focusedGroups, engine, pending, obs, ops>>

\* The state as one record.
St ==
    [parentElement |-> parentElement, nodeAttrs |-> nodeAttrs,
     ahGroup |-> ahGroup, ahContainer |-> ahContainer,
     ahFocusable |-> ahFocusable, ahLayer |-> ahLayer,
     currentLayerId |-> currentLayerId,
     lastGroupId |-> lastGroupId, lastContainerId |-> lastContainerId,
     group |-> group, cont |-> cont, containers |-> containers,
     focusedGroups |-> focusedGroups, engine |-> engine,
     pending |-> pending, obs |-> obs, ops |-> ops]

Commit(s) ==
    /\ parentElement' = s.parentElement
    /\ nodeAttrs' = s.nodeAttrs
    /\ ahGroup' = s.ahGroup
    /\ ahContainer' = s.ahContainer
    /\ ahFocusable' = s.ahFocusable
    /\ ahLayer' = s.ahLayer
    /\ currentLayerId' = s.currentLayerId
    /\ lastGroupId' = s.lastGroupId
    /\ lastContainerId' = s.lastContainerId
    /\ group' = s.group
    /\ cont' = s.cont
    /\ containers' = s.containers
    /\ focusedGroups' = s.focusedGroups
    /\ engine' = s.engine
    /\ pending' = s.pending
    /\ obs' = s.obs
    /\ ops' = s.ops

\* The state is s.
StateIs(s) ==
    /\ parentElement = s.parentElement
    /\ nodeAttrs = s.nodeAttrs
    /\ ahGroup = s.ahGroup
    /\ ahContainer = s.ahContainer
    /\ ahFocusable = s.ahFocusable
    /\ ahLayer = s.ahLayer
    /\ currentLayerId = s.currentLayerId
    /\ lastGroupId = s.lastGroupId
    /\ lastContainerId = s.lastContainerId
    /\ group = s.group
    /\ cont = s.cont
    /\ containers = s.containers
    /\ focusedGroups = s.focusedGroups
    /\ engine = s.engine
    /\ pending = s.pending
    /\ obs = s.obs
    /\ ops = s.ops

(* --------------------------- tree primitives --------------------------- *)
Min(S) == CHOOSE x \in S : \A y \in S : x <= y
Max(S) == CHOOSE x \in S : \A y \in S : x >= y

RECURSIVE SetToSeq(_)
\* Object.keys() of an id-keyed object, taken in ascending id order.
SetToSeq(S) == IF S = {} THEN <<>> ELSE <<Min(S)>> \o SetToSeq(S \ {Min(S)})

Children(s, p) == {n \in Nodes : s.parentElement[n] = p}

firstElementChild(s, p) ==
    IF Children(s, p) = {} THEN Null ELSE Min(Children(s, p))

lastElementChild(s, p) ==
    IF Children(s, p) = {} THEN Null ELSE Max(Children(s, p))

nextElementSibling(s, n) ==
    LET later == {m \in Nodes : /\ s.parentElement[n] # Null
                                /\ s.parentElement[m] = s.parentElement[n]
                                /\ m > n}
    IN IF later = {} THEN Null ELSE Min(later)

previousElementSibling(s, n) ==
    LET earlier == {m \in Nodes : /\ s.parentElement[n] # Null
                                  /\ s.parentElement[m] = s.parentElement[n]
                                  /\ m < n}
    IN IF earlier = {} THEN Null ELSE Max(earlier)

RECURSIVE Ancestors(_, _)
\* n, its parent, ... up to the root: the el = el.parentElement loops.
Ancestors(s, n) ==
    IF n = Null THEN <<>> ELSE <<n>> \o Ancestors(s, s.parentElement[n])

SeqToSet(q) == {q[i] : i \in 1..Len(q)}

\* Node.contains: a is b or an ancestor of b.
contains(s, a, b) == b # Null /\ a \in SeqToSet(Ancestors(s, b))

(* ------------------------------ records ------------------------------- *)
\* Types.FocusableGroupProps as far as the source reads them.  onChange is
\* whether a callback is registered; lookupVisibility is the visibility
\* lookup mode, "Undefined" when the property is not given.
GroupProps(isDefault, isLimited, lookupVisibility, memorizeCurrent, onChange) ==
    [isDefault |-> isDefault, isLimited |-> isLimited,
     lookupVisibility |-> lookupVisibility,
     memorizeCurrent |-> memorizeCurrent, onChange |-> onChange]

\* ah.modalityLayer of a node: no layer, or a layer with its userId,
\* isActive() and isAlwaysAccessible().
NoLayer ==
    [present |-> FALSE, userId |-> None, active |-> FALSE,
     alwaysAccessible |-> FALSE]
Layer(userId, active, alwaysAccessible) ==
    [present |-> TRUE, userId |-> userId, active |-> active,
     alwaysAccessible |-> alwaysAccessible]

\* A FocusableGroup that has not been constructed yet.
NoGroup ==
    [_element |-> Null, _container |-> None,
     _props |-> GroupProps(FALSE, "Unlimited", "Undefined", FALSE, FALSE)]

NoVisibleGroups == [g \in GroupIds |-> Invisible]

\* What is remembered of a Group that was no member when a pass ran.
AbsentState ==
    [isCurrent |-> "absent", isPrevious |-> FALSE, isNext |-> FALSE,
     isFirst |-> FALSE, isLast |-> FALSE, isVisible |-> Invisible,
     hasFocus |-> FALSE, siblingHasFocus |-> FALSE, isLimited |-> FALSE]

\* The fields of a FocusableGroupContainer right after its constructor.
\* _visibleGroups and _prevVisibleGroups are compared by reference in the
\* source; sameVisibleObject is whether both fields hold the same object.
\* _onChangeTimer and _updateVisibleTimer are whether the field holds a timer
\* id; onChangeCallbacks and updateVisibleCallbacks count the callbacks the
\* Container has handed to window.setTimeout that have neither run nor been
\* cleared.  statesAtPass is what getGroupState answered for each member at
\* the end of the Container's latest change pass.  detected holds the members
\* for which a visibility pass found a new classification and whose callback
\* no change pass has invoked since.
NewContainer(element, explicitProps) ==
    [_element |-> element,
     _current |-> None, _prev |-> None, _next |-> None,
     _first |-> None, _last |-> None,
     _focused |-> None, _unlimited |-> None,
     _visibleGroups |-> NoVisibleGroups,
     _hasFullyVisibleGroup |-> FALSE,
     _prevCurrent |-> None, _prevPrev |-> None, _prevNext |-> None,
     _prevFirst |-> None, _prevLast |-> None,
     _prevFocused |-> None, _prevUnlimited |-> None,
     _prevVisibleGroups |-> NoVisibleGroups,
     sameVisibleObject |-> FALSE,
     _onChangeTimer |-> FALSE, _updateVisibleTimer |-> FALSE,
     onChangeCallbacks |-> 0, updateVisibleCallbacks |-> 0,
     statesAtPass |-> [g \in GroupIds |-> AbsentState],
     detected |-> {},
     _props |-> explicitProps,
     _groups |-> {}]

NoContainer == NewContainer(Null, FALSE)

\* Nothing observed.
NoFlags ==
    [includeProgrammaticallyFocusable |-> FALSE, ignoreLayer |-> FALSE,
     ignoreGroup |-> FALSE]
NoObs ==
    [op |-> "none", container |-> None, calls |-> <<>>, result |-> Null,
     flags |-> NoFlags, dropped |-> {}, classified |-> NoVisibleGroups, lostFocus |-> None]

(* ---------------------- FocusableGroupContainer ----------------------- *)
\* _processOnChange(): arm the change timer unless one is pending.
_processOnChange_NoGuard(s, c) ==
    [s EXCEPT !.cont[c]._onChangeTimer = TRUE,
              !.cont[c].onChangeCallbacks = @ + 1]

_processOnChange(s, c) ==
    IF s.cont[c]._onChangeTimer
    THEN s
    ELSE [s EXCEPT !.cont[c]._onChangeTimer = TRUE,
                   !.cont[c].onChangeCallbacks = @ + 1]

\* _updateVisible(): arm the visibility timer unless one is pending.
_updateVisible(s, c) ==
    IF s.cont[c]._updateVisibleTimer
    THEN s
    ELSE [s EXCEPT !.cont[c]._updateVisibleTimer = TRUE,
                   !.cont[c].updateVisibleCallbacks = @ + 1]

\* Does node e own a Group that is in container c's _groups?
OwnsMemberGroup(s, c, e) ==
    /\ s.ahGroup[e] # None
    /\ s.ahGroup[e] \in s.cont[c]._groups

_setFirstLast(s, c) ==
    LET kids == {e \in Children(s, s.cont[c]._element) : OwnsMemberGroup(s, c, e)}
        first == IF kids = {} THEN None ELSE s.ahGroup[Min(kids)]
        last == IF kids = {} THEN None ELSE s.ahGroup[Max(kids)]
    IN _processOnChange(
           [s EXCEPT !.cont[c]._first = first, !.cont[c]._last = last], c)

Container_addGroup(s, c, g) ==
    LET s1 == [s EXCEPT !.cont[c]._groups = @ \cup {g}]
    IN _updateVisible(_setFirstLast(s1, c), c)

Container_removeGroup_KeepsPrevVisible(s, c, g) ==
    LET s1 == [s EXCEPT !.cont[c]._groups = @ \ {g},
                        !.cont[c].detected = @ \ {g},
                        !.cont[c]._visibleGroups[g] = Invisible]
    IN _updateVisible(_setFirstLast(s1, c), c)

\* removeGroup(group) (lines 117-125).
Container_removeGroup(s, c, g) ==
    LET s1 == [s EXCEPT !.cont[c]._groups = @ \ {g},
                        !.cont[c].detected = @ \ {g},
                        !.cont[c]._visibleGroups[g] = Invisible,
                        !.cont[c]._prevVisibleGroups[g] = Invisible]
    IN _updateVisible(_setFirstLast(s1, c), c)

setFocusedGroup(s, c, g) ==
    IF g # s.cont[c]._focused
    THEN _processOnChange([s EXCEPT !.cont[c]._focused = g], c)
    ELSE s

setUnlimitedGroup(s, c, g) ==
    IF g # s.cont[c]._unlimited
    THEN _processOnChange([s EXCEPT !.cont[c]._unlimited = g], c)
    ELSE s

NearestGroupSibling_NoBreak(s, e, dir) ==
    LET sibs == {m \in Nodes : /\ s.parentElement[e] # Null
                               /\ s.parentElement[m] = s.parentElement[e]
                               /\ (IF dir < 0 THEN m < e ELSE m > e)
                               /\ s.ahGroup[m] # None}
    IN IF sibs = {} THEN None
       ELSE s.ahGroup[IF dir < 0 THEN Min(sibs) ELSE Max(sibs)]

\* The nearest sibling before (dir = -1) or after (dir = 1) node e that owns
\* a Group, as the two scans of setCurrentGroup find it.
NearestGroupSibling(s, e, dir) ==
    LET sibs == {m \in Nodes : /\ s.parentElement[e] # Null
                               /\ s.parentElement[m] = s.parentElement[e]
                               /\ (IF dir < 0 THEN m < e ELSE m > e)
                               /\ s.ahGroup[m] # None}
    IN IF sibs = {} THEN None
       ELSE s.ahGroup[IF dir < 0 THEN Max(sibs) ELSE Min(sibs)]

Container_setCurrentGroup(s, c, g) ==
    LET current == IF g \in s.cont[c]._groups THEN g ELSE None
        curElement == IF current # None THEN s.group[current]._element ELSE Null
        inside == curElement # Null
                  /\ s.parentElement[curElement] = s.cont[c]._element
        prev == IF inside THEN NearestGroupSibling(s, curElement, -1) ELSE None
        next == IF inside THEN NearestGroupSibling(s, curElement, 1) ELSE None
    IN _processOnChange(
           [s EXCEPT !.cont[c]._current = current,
                     !.cont[c]._prev = prev,
                     !.cont[c]._next = next], c)

\* getCurrentGroup(): the result, and the state with a stale _current reset.
getCurrentGroup_result(s, c) ==
    IF s.cont[c]._current # None /\ s.cont[c]._current \in s.cont[c]._groups
    THEN s.cont[c]._current
    ELSE Null

getCurrentGroup(s, c) ==
    IF s.cont[c]._current # None /\ s.cont[c]._current \in s.cont[c]._groups
    THEN s
    ELSE [s EXCEPT !.cont[c]._current = None]

IsLimitedMode(props) == props.isLimited \in {"Limited", "LimitedTrapFocus"}

\* isCurrent of getGroupState: "true", "false" or "undefined".
IsCurrentOf(cr, g, props) ==
    LET isVisible == cr._visibleGroups[g]
        byPointer == IF cr._current # None
                     THEN (IF cr._current = g THEN "true" ELSE "false")
                     ELSE "undefined"
    IN IF /\ byPointer = "undefined"
          /\ props.lookupVisibility # Invisible
          /\ \/ isVisible = Invisible
             \/ (cr._hasFullyVisibleGroup /\ isVisible = PartiallyVisible)
       THEN "false"
       ELSE byPointer

getGroupState_SettledUnlimited(s, c, g) ==
    LET cr == s.cont[c]
        props == s.group[g]._props
    IN [isCurrent |-> IsCurrentOf(cr, g, props),
        isPrevious |-> cr._prev = g,
        isNext |-> cr._next = g,
        isFirst |-> cr._first = g,
        isLast |-> cr._last = g,
        isVisible |-> cr._visibleGroups[g],
        hasFocus |-> cr._focused = g,
        siblingHasFocus |-> cr._focused # None /\ cr._focused # g,
        isLimited |-> IF IsLimitedMode(props) THEN cr._prevUnlimited # g ELSE FALSE]

\* getGroupState(group) (lines 306-335).
getGroupState(s, c, g) ==
    LET cr == s.cont[c]
        props == s.group[g]._props
    IN [isCurrent |-> IsCurrentOf(cr, g, props),
        isPrevious |-> cr._prev = g,
        isNext |-> cr._next = g,
        isFirst |-> cr._first = g,
        isLast |-> cr._last = g,
        isVisible |-> cr._visibleGroups[g],
        hasFocus |-> cr._focused = g,
        siblingHasFocus |-> cr._focused # None /\ cr._focused # g,
        isLimited |-> IF IsLimitedMode(props) THEN cr._unlimited # g ELSE FALSE]

isEmpty(s, c) == s.cont[c]._groups = {}

(* ------------------- the change-propagation pass ---------------------- *)
\* A pointer and its snapshot: both are pushed when they differ.
PointerDiff(before, now) == IF before # now THEN <<before, now>> ELSE <<>>

\* The test of lines 156-160 without its memorizeCurrent part.
FocusLost_IgnoresMemorize(s, cr) ==
    /\ cr._prevFocused # cr._focused
    /\ cr._focused = None
    /\ cr._prevFocused # None

\* Did the focused Group go from a Group that does not memorize the current
\* Group to none since the last pass?  (lines 151-160)
FocusLost(s, cr) ==
    /\ cr._prevFocused # cr._focused
    /\ cr._focused = None
    /\ cr._prevFocused # None
    /\ ~s.group[cr._prevFocused]._props.memorizeCurrent

\* The container's pointers as the pass compares them: _current, _prev and
\* _next are dropped first when focus was lost.
AfterFocusLost(s, cr) ==
    IF FocusLost(s, cr)
    THEN [cr EXCEPT !._current = None, !._prev = None, !._next = None]
    ELSE cr

\* this._groups[id]: the Group, or undefined when id is not a member.
MemberOrNone(cr, id) == IF id \in cr._groups THEN id ELSE None

\* The 'changed' list of one pass, in the order the source pushes it.
Changed(s, cr0) ==
    LET cr == AfterFocusLost(s, cr0)
        byFocus == IF cr0._prevFocused # cr0._focused
                   THEN SetToSeq(cr0._groups) ELSE <<>>
        nowKeys == SetToSeq({id \in GroupIds : cr._visibleGroups[id] # Invisible})
        prevKeys == SetToSeq({id \in GroupIds : cr._prevVisibleGroups[id] # Invisible})
        differs(id) == cr._visibleGroups[id] # cr._prevVisibleGroups[id]
        byVisible ==
            IF cr.sameVisibleObject THEN <<>>
            ELSE [i \in 1..Len(SelectSeq(nowKeys, differs)) |->
                     MemberOrNone(cr, SelectSeq(nowKeys, differs)[i])]
                 \o
                 [i \in 1..Len(SelectSeq(prevKeys, differs)) |->
                     MemberOrNone(cr, SelectSeq(prevKeys, differs)[i])]
    IN byFocus
       \o PointerDiff(cr._prevCurrent, cr._current)
       \o PointerDiff(cr._prevPrev, cr._prev)
       \o PointerDiff(cr._prevNext, cr._next)
       \o PointerDiff(cr._prevFirst, cr._first)
       \o PointerDiff(cr._prevLast, cr._last)
       \o PointerDiff(cr._prevUnlimited, cr._unlimited)
       \o byVisible

RECURSIVE Unprocessed(_, _)
\* The 'processed' bookkeeping of lines 225-230: every id once, first come.
Unprocessed(q, processed) ==
    IF q = <<>> THEN <<>>
    ELSE IF Head(q) \in processed
         THEN Unprocessed(Tail(q), processed)
         ELSE <<Head(q)>> \o Unprocessed(Tail(q), processed \cup {Head(q)})

ToNotify_EveryPush(changed, members) ==
    LET isMember(g) == g # None /\ g \in members
    IN SelectSeq(changed, isMember)

ToNotify_NoMemberFilter(changed, members) ==
    LET isGroup(g) == g # None
    IN Unprocessed(SelectSeq(changed, isGroup), {})

\* The Groups whose onChange is looked up, in order (lines 225-237).
ToNotify(changed, members) ==
    LET isMember(g) == g # None /\ g \in members
    IN Unprocessed(SelectSeq(changed, isMember), {})

\* The container after the snapshots of one pass are taken.
Snapshot(s, cr0) ==
    LET cr == AfterFocusLost(s, cr0)
    IN [cr EXCEPT
           !._onChangeTimer = FALSE,
           !.onChangeCallbacks = @ - 1,
           !._prevFocused = cr._focused,
           !._prevCurrent = cr._current,
           !._prevPrev = cr._prev,
           !._prevNext = cr._next,
           !._prevFirst = cr._first,
           !._prevLast = cr._last,
           !._prevUnlimited = cr._unlimited,
           !._hasFullyVisibleGroup =
               IF cr.sameVisibleObject THEN cr._hasFullyVisibleGroup
               ELSE \E id \in GroupIds : cr._visibleGroups[id] = Visible,
           !._prevVisibleGroups = cr._visibleGroups,
           !.sameVisibleObject = TRUE]

\* The callback of the change timer (lines 146-238).  obs.calls lists the
\* onChange invocations of the pass, one entry per invocation.  obs.lostFocus
\* is the Group the pass found focus to have left for none.
onChangeTimerFired(s, c) ==
    LET cr0 == s.cont[c]
        order == ToNotify(Changed(s, cr0), cr0._groups)
        hasCallback(g) == s.group[g]._props.onChange
        s1 == [s EXCEPT !.cont[c] = Snapshot(s, cr0)]
    IN [s1 EXCEPT !.cont[c].statesAtPass =
                      [g \in GroupIds |->
                          IF g \in cr0._groups THEN getGroupState(s1, c, g)
                          ELSE AbsentState],
                  !.cont[c].detected = @ \ SeqToSet(SelectSeq(order, hasCallback)),
                  !.obs = [op |-> "onChange", container |-> c,
                           calls |-> SelectSeq(order, hasCallback),
                           result |-> Null, flags |-> NoFlags,
                           dropped |-> {g \in SeqToSet(Changed(s, cr0)) :
                                           g # None /\ g \notin cr0._groups},
                           classified |-> NoVisibleGroups,
                           lostFocus |-> IF cr0._focused = None
                                         THEN cr0._prevFocused ELSE None]]

(* --------------------- the visibility-refresh pass -------------------- *)
\* The callback of the visibility timer without the test of isChanged.
updateVisibleTimerFired_AlwaysSwaps(s, c, classify) ==
    LET cr == s.cont[c]
        visibleGroups == [id \in GroupIds |->
                             IF id \in cr._groups THEN classify[id] ELSE Invisible]
        s1 == [s EXCEPT !.cont[c]._updateVisibleTimer = FALSE,
                        !.cont[c].updateVisibleCallbacks = @ - 1,
                        !.cont[c].detected =
                            @ \cup {id \in cr._groups :
                                       cr._visibleGroups[id] # classify[id]},
                        !.obs = [op |-> "updateVisible", container |-> c,
                                 calls |-> <<>>, result |-> Null,
                                 flags |-> NoFlags, dropped |-> {},
                                 classified |-> classify, lostFocus |-> None]]
    IN _processOnChange(
           [s1 EXCEPT !.cont[c]._prevVisibleGroups = cr._visibleGroups,
                      !.cont[c]._visibleGroups = visibleGroups,
                      !.cont[c].sameVisibleObject = FALSE], c)

\* The callback of the visibility timer (lines 346-370); classify is what
\* isElementVisibleInContainer answers for each member's node, recorded in
\* obs.classified.
updateVisibleTimerFired(s, c, classify) ==
    LET cr == s.cont[c]
        visibleGroups == [id \in GroupIds |->
                             IF id \in cr._groups THEN classify[id] ELSE Invisible]
        isChanged == \E id \in cr._groups : cr._visibleGroups[id] # classify[id]
        s1 == [s EXCEPT !.cont[c]._updateVisibleTimer = FALSE,
                        !.cont[c].updateVisibleCallbacks = @ - 1,
                        !.cont[c].detected =
                            @ \cup {id \in cr._groups :
                                       cr._visibleGroups[id] # classify[id]},
                        !.obs = [op |-> "updateVisible", container |-> c,
                                 calls |-> <<>>, result |-> Null,
                                 flags |-> NoFlags, dropped |-> {},
                                 classified |-> classify, lostFocus |-> None]]
    IN IF isChanged
       THEN _processOnChange(
                [s1 EXCEPT !.cont[c]._prevVisibleGroups = cr._visibleGroups,
                           !.cont[c]._visibleGroups = visibleGroups,
                           !.cont[c].sameVisibleObject = FALSE], c)
       ELSE s1

RECURSIVE ArmAll(_, _)
ArmAll(s, q) == IF q = <<>> THEN s ELSE ArmAll(_updateVisible(s, Head(q)), Tail(q))

ScrolledContainers_PerSource(s, scrolled) ==
    LET hits == {<<t, c>> \in scrolled \X s.containers :
                    contains(s, t, s.cont[c]._element)}
        q == SetToSeq({h[1] * (MaxContainers + 2) + h[2] : h \in hits})
    IN [i \in 1..Len(q) |-> q[i] % (MaxContainers + 2)]

\* The containers updateVisible(scrolled) calls _updateVisible() on, one
\* entry per call (lines 374-388).
ScrolledContainers(s, scrolled) ==
    SetToSeq({c \in s.containers :
                 \E t \in scrolled : contains(s, t, s.cont[c]._element)})

Container_updateVisible(s, scrolled) ==
    LET calls == ScrolledContainers(s, scrolled)
    IN [ArmAll(s, calls) EXCEPT
           !.obs = [op |-> "scroll", container |-> None,
                    calls |-> calls, result |-> Null, flags |-> NoFlags,
                    dropped |-> {}, classified |-> NoVisibleGroups, lostFocus |-> None]]

\* new FocusableGroupContainer(element, props)
Container_new(s, element, explicitProps) ==
    LET id == s.lastContainerId + 1
    IN [s EXCEPT !.lastContainerId = id,
                 !.cont[id] = NewContainer(element, explicitProps),
                 !.ahContainer[element] = id,
                 !.containers = @ \cup {id}]

Container_dispose(s, c) ==
    [s EXCEPT !.cont[c]._groups = {},
              !.cont[c].detected = {},
              !.cont[c]._updateVisibleTimer = FALSE,
              !.cont[c].updateVisibleCallbacks =
                  IF s.cont[c]._updateVisibleTimer THEN @ - 1 ELSE @,
              !.ahContainer[s.cont[c]._element] = None,
              !.containers = @ \ {c}]

(* --------------------------- FocusableGroup --------------------------- *)
setupContainer(s, g, remove) ==
    LET containerElement == s.parentElement[s.group[g]._element]
        curContainer == s.group[g]._container
        found == IF containerElement # Null
                 THEN s.ahContainer[containerElement] ELSE None
        create == containerElement # Null /\ found = None /\ ~remove
        s1 == IF create THEN Container_new(s, containerElement, FALSE) ELSE s
        container == IF create THEN s1.lastContainerId ELSE found
    IN IF curContainer # container
       THEN LET s2 == IF curContainer # None
                      THEN Container_removeGroup(s1, curContainer, g) ELSE s1
                s3 == [s2 EXCEPT !.group[g]._container = container]
            IN IF ~remove /\ container # None
               THEN Container_addGroup(s3, container, g) ELSE s3
       ELSE s1

\* new FocusableGroup(element, props)
Group_new(s, element, props) ==
    LET id == s.lastGroupId + 1
        s1 == [s EXCEPT !.lastGroupId = id,
                        !.group[id] = [_element |-> element, _container |-> None,
                                       _props |-> props],
                        !.ahGroup[element] = id]
    IN setupContainer(s1, id, FALSE)

Group_dispose(s, g) ==
    LET s1 == setupContainer(s, g, TRUE)
    IN [s1 EXCEPT !.ahGroup[s.group[g]._element] = None]

moveTo(s, g, newElement) ==
    IF s.group[g]._element # newElement
    THEN LET s1 == setupContainer(s, g, TRUE)
             s2 == [s1 EXCEPT !.group[g]._element = newElement]
         IN setupContainer(s2, g, FALSE)
    ELSE s

\* The state a Group without a Container reports.
DetachedState ==
    [isCurrent |-> "undefined", isPrevious |-> FALSE, isNext |-> FALSE,
     isFirst |-> FALSE, isLast |-> FALSE, isVisible |-> Invisible,
     hasFocus |-> FALSE, siblingHasFocus |-> FALSE, isLimited |-> FALSE]

getState(s, g) ==
    IF s.group[g]._container # None
    THEN getGroupState(s, s.group[g]._container, g)
    ELSE DetachedState

makeCurrent(s, g) ==
    IF s.group[g]._container # None
    THEN Container_setCurrentGroup(s, s.group[g]._container, g)
    ELSE s

setFocused(s, g, focused) ==
    IF s.group[g]._container # None
    THEN setFocusedGroup(s, s.group[g]._container, IF focused THEN g ELSE None)
    ELSE s

setUnlimited_WrongMode(s, g, unlimited) ==
    IF s.group[g]._container # None /\ ~IsLimitedMode(s.group[g]._props)
    THEN setUnlimitedGroup(s, s.group[g]._container, IF unlimited THEN g ELSE None)
    ELSE s

\* FocusableGroup.setUnlimited (lines 480-487).
setUnlimited(s, g, unlimited) ==
    IF s.group[g]._container # None /\ IsLimitedMode(s.group[g]._props)
    THEN setUnlimitedGroup(s, s.group[g]._container, IF unlimited THEN g ELSE None)
    ELSE s

(* ------------------------ Focusable: predicates ----------------------- *)
isVisible(s, el) == ~s.nodeAttrs[el].hidden

RECURSIVE AccessibleFrom(_, _)
\* The loop of isAccessible over e, e.parentElement, ...
AccessibleFrom(s, e) ==
    IF e = Null THEN TRUE
    ELSE IF s.ahLayer[e].present /\ ~s.ahLayer[e].active THEN TRUE
    ELSE IF s.nodeAttrs[e].ariaHidden THEN FALSE
    ELSE AccessibleFrom(s, s.parentElement[e])

isAccessible(s, el) == AccessibleFrom(s, el)

isFocusable(s, el, includeProgrammaticallyFocusable, noAccessibleCheck) ==
    IF /\ s.nodeAttrs[el].matches
       /\ (includeProgrammaticallyFocusable \/ ~s.nodeAttrs[el].tabIndexNeg)
    THEN isVisible(s, el) /\ (noAccessibleCheck \/ isAccessible(s, el))
    ELSE FALSE

RECURSIVE findGroupFrom(_, _)
\* _findGroup: the Group of the nearest node, from el upward, that owns one.
findGroupFrom(s, el) ==
    IF el = Null THEN None
    ELSE IF s.ahGroup[el] # None THEN s.ahGroup[el]
    ELSE findGroupFrom(s, s.parentElement[el])

_findGroup(s, element) == findGroupFrom(s, element)

RECURSIVE LayerFrom(_, _)
\* ModalityLayer.getLayerFor: the nearest active layer enclosing the node,
\* NoLayer when there is none.
LayerFrom(s, e) ==
    IF e = Null THEN NoLayer
    ELSE IF s.ahLayer[e].present /\ s.ahLayer[e].active THEN s.ahLayer[e]
    ELSE LayerFrom(s, s.parentElement[e])

getLayerFor(s, element) == LayerFrom(s, element)

(* ----------------------------- TreeWalker ----------------------------- *)
\* document.createTreeWalker(root, SHOW_ELEMENT, filter) over the element
\* tree; f maps every node to the filter's answer for it.
RECURSIVE FollowingOutside(_, _, _)
\* The next node after temporary's subtree, inside root.
FollowingOutside(s, root, temporary) ==
    IF temporary = Null \/ temporary = root THEN Null
    ELSE IF nextElementSibling(s, temporary) # Null
         THEN nextElementSibling(s, temporary)
         ELSE FollowingOutside(s, root, s.parentElement[temporary])

RECURSIVE WalkNext(_, _, _, _, _)
WalkNext(s, root, f, node, result) ==
    IF result # "REJECT" /\ firstElementChild(s, node) # Null
    THEN LET child == firstElementChild(s, node)
         IN IF f[child] = "ACCEPT" THEN child
            ELSE WalkNext(s, root, f, child, f[child])
    ELSE LET following == FollowingOutside(s, root, node)
         IN IF following = Null THEN Null
            ELSE IF f[following] = "ACCEPT" THEN following
            ELSE WalkNext(s, root, f, following, f[following])

nextNode(s, root, f, currentNode) == WalkNext(s, root, f, currentNode, "ACCEPT")

RECURSIVE DeepestLast(_, _, _)
\* Descend through last children while the filter does not reject.
DeepestLast(s, f, node) ==
    IF f[node] # "REJECT" /\ lastElementChild(s, node) # Null
    THEN DeepestLast(s, f, lastElementChild(s, node))
    ELSE node

RECURSIVE WalkPrev(_, _, _, _, _)
\* sibling is the next candidate among node's earlier siblings, Null when
\* the sibling loop has run out and the walk steps to node's parent.
WalkPrev(s, root, f, node, sibling) ==
    IF sibling # Null
    THEN LET d == DeepestLast(s, f, sibling)
         IN IF f[d] = "ACCEPT" THEN d
            ELSE WalkPrev(s, root, f, d, previousElementSibling(s, d))
    ELSE IF node = root \/ s.parentElement[node] = Null THEN Null
    ELSE LET p == s.parentElement[node]
         IN IF f[p] = "ACCEPT" THEN p
            ELSE IF p = root THEN Null
            ELSE WalkPrev(s, root, f, p, previousElementSibling(s, p))

previousNode(s, root, f, currentNode) ==
    IF currentNode = root THEN Null
    ELSE WalkPrev(s, root, f, currentNode, previousElementSibling(s, currentNode))

(* ------------------------ Focusable: the walk ------------------------- *)
RECURSIVE _findElement(_, _, _, _, _, _, _, _)
RECURSIVE _acceptElement(_, _, _, _, _, _)
RECURSIVE _isInCurrentGroup(_, _, _)
RECURSIVE _getGroupFirst(_, _, _)
RECURSIVE AllowedThrough(_, _, _, _, _)

\* The accept conditions the source passes: "focusable" is the default one,
\* "default" the one of findDefault.
acceptCondition(s, kind, el, includeProgrammaticallyFocusable) ==
    IF kind = "default"
    THEN /\ isFocusable(s, el, includeProgrammaticallyFocusable, FALSE)
         /\ s.ahFocusable[el].isDefault
    ELSE isFocusable(s, el, includeProgrammaticallyFocusable, FALSE)

\* Is the layer test of _acceptElement passed (lines 1066-1069)?
LayerAllows(s, element, ignoreLayer) ==
    LET layerInfo == getLayerFor(s, element)
    IN \/ ignoreLayer
       \/ ~layerInfo.present
       \/ s.currentLayerId = None
       \/ s.currentLayerId = layerInfo.userId
       \/ layerInfo.alwaysAccessible

_acceptElement_SkipsBlockedLayer(s, element, kind, includeProgrammaticallyFocusable, ignoreLayer, ignoreGroup) ==
    IF LayerAllows(s, element, ignoreLayer)
    THEN IF ~ignoreGroup /\ ~_isInCurrentGroup(s, element, TRUE)
         THEN "REJECT"
         ELSE IF acceptCondition(s, kind, element, includeProgrammaticallyFocusable)
              THEN "ACCEPT" ELSE "SKIP"
    ELSE "SKIP"

\* The walker's filter (lines 1057-1079).
_acceptElement(s, element, kind, includeProgrammaticallyFocusable, ignoreLayer, ignoreGroup) ==
    IF LayerAllows(s, element, ignoreLayer)
    THEN IF ~ignoreGroup /\ ~_isInCurrentGroup(s, element, TRUE)
         THEN "REJECT"
         ELSE IF acceptCondition(s, kind, element, includeProgrammaticallyFocusable)
              THEN "ACCEPT" ELSE "SKIP"
    ELSE IF getLayerFor(s, element).present THEN "REJECT" ELSE "SKIP"

_findElement_PrevFromEnd(s, container, currentElement, includeProgrammaticallyFocusable, ignoreLayer, ignoreGroup, prev, kind) ==
    IF container = Null THEN Null
    ELSE IF /\ currentElement # Null
            /\ container # currentElement
            /\ ~contains(s, container, currentElement)
    THEN Null
    ELSE LET f == [n \in Nodes |->
                      _acceptElement(s, n, kind, includeProgrammaticallyFocusable,
                                     ignoreLayer, ignoreGroup)]
             lastChild == IF lastElementChild(s, container) = Null THEN Null
                          ELSE DeepestLast(s, [n \in Nodes |-> "SKIP"],
                                           lastElementChild(s, container))
         IN IF currentElement # Null /\ ~prev
            THEN nextNode(s, container, f, currentElement)
            ELSE IF prev
                 THEN IF lastChild = Null THEN Null
                      ELSE IF f[lastChild] = "ACCEPT" THEN lastChild
                      ELSE previousNode(s, container, f, lastChild)
                 ELSE nextNode(s, container, f, container)

\* The one constrained walk behind every find operation (lines 1003-1055).
_findElement(s, container, currentElement, includeProgrammaticallyFocusable, ignoreLayer, ignoreGroup, prev, kind) ==
    IF container = Null THEN Null
    ELSE IF /\ currentElement # Null
            /\ container # currentElement
            /\ ~contains(s, container, currentElement)
    THEN Null
    ELSE LET f == [n \in Nodes |->
                      _acceptElement(s, n, kind, includeProgrammaticallyFocusable,
                                     ignoreLayer, ignoreGroup)]
             lastChild == IF lastElementChild(s, container) = Null THEN Null
                          ELSE DeepestLast(s, [n \in Nodes |-> "SKIP"],
                                           lastElementChild(s, container))
         IN IF currentElement # Null
            THEN IF prev THEN previousNode(s, container, f, currentElement)
                 ELSE nextNode(s, container, f, currentElement)
            ELSE IF prev
                 THEN IF lastChild = Null THEN Null
                      ELSE IF f[lastChild] = "ACCEPT" THEN lastChild
                      ELSE previousNode(s, container, f, lastChild)
                 ELSE nextNode(s, container, f, container)


findFirst(s, context, includeProgrammaticallyFocusable, ignoreLayer, ignoreGroup) ==
    _findElement(s, context, Null, includeProgrammaticallyFocusable,
                 ignoreLayer, ignoreGroup, FALSE, "focusable")

findLast(s, context, includeProgrammaticallyFocusable, ignoreLayer, ignoreGroup) ==
    _findElement(s, context, Null, includeProgrammaticallyFocusable,
                 ignoreLayer, ignoreGroup, TRUE, "focusable")

findNext(s, current, context, includeProgrammaticallyFocusable, ignoreLayer, ignoreGroup) ==
    _findElement(s, context, current, includeProgrammaticallyFocusable,
                 ignoreLayer, ignoreGroup, FALSE, "focusable")

findPrev(s, current, context, includeProgrammaticallyFocusable, ignoreLayer, ignoreGroup) ==
    _findElement(s, context, current, includeProgrammaticallyFocusable,
                 ignoreLayer, ignoreGroup, TRUE, "focusable")

findDefault(s, context, includeProgrammaticallyFocusable, ignoreLayer, ignoreGroup) ==
    _findElement(s, context, Null, includeProgrammaticallyFocusable,
                 ignoreLayer, ignoreGroup, FALSE, "default")

_getGroupFirst(s, groupElement, ignoreGroup) ==
    IF isFocusable(s, groupElement, FALSE, FALSE)
    THEN groupElement
    ELSE findFirst(s, groupElement, FALSE, FALSE, ignoreGroup)

\* The while loop of _isInCurrentGroup from Group g outward.
AllowedThrough(s, g, groupElement, unlimitedOnly, isValidForLimited) ==
    IF g = None THEN TRUE
    ELSE LET state == getState(s, g)
             parentEl == s.parentElement[groupElement]
             outer == IF parentEl # Null THEN _findGroup(s, parentEl) ELSE None
         IN IF state.isCurrent = "false" THEN FALSE
            ELSE IF unlimitedOnly /\ state.isLimited /\ ~isValidForLimited THEN FALSE
            ELSE AllowedThrough(s, outer,
                                IF outer # None THEN s.group[outer]._element
                                ELSE groupElement,
                                unlimitedOnly, isValidForLimited)

_isInCurrentGroup(s, element, unlimitedOnly) ==
    LET g == _findGroup(s, element)
    IN IF g = None THEN TRUE
       ELSE LET groupElement == s.group[g]._element
                isValidForLimited ==
                    IF unlimitedOnly
                    THEN contains(s, element, _getGroupFirst(s, groupElement, TRUE))
                    ELSE FALSE
            IN AllowedThrough(s, g, groupElement, unlimitedOnly, isValidForLimited)

isInCurrentGroup(s, element) == _isInCurrentGroup(s, element, FALSE)

(* ---------------------- Focusable: sibling Groups --------------------- *)
\* findGroup(element): the node of the nearest Group (lines 780-784).
findGroup(s, element) ==
    LET g == _findGroup(s, element)
    IN IF g # None THEN s.group[g]._element ELSE Null

\* The step of the four scans: towards later (dir = 1) or earlier siblings.
NextCandidate(s, el, dir) ==
    IF dir > 0 THEN nextElementSibling(s, el) ELSE previousElementSibling(s, el)

RECURSIVE ScanGroups_NoSkip(_, _, _, _)
ScanGroups_NoSkip(s, el, dir, ignoreLayer) ==
    IF el = Null THEN Null
    ELSE IF s.ahGroup[el] # None /\ (ignoreLayer \/ isAccessible(s, el))
         THEN el
         ELSE ScanGroups_NoSkip(s, NextCandidate(s, el, dir), dir, ignoreLayer)

RECURSIVE ScanGroups(_, _, _, _)
\* The for loop of _findNextGroup from candidate el on (lines 798-808).
ScanGroups(s, el, dir, ignoreLayer) ==
    IF el = Null THEN Null
    ELSE IF /\ s.ahGroup[el] # None
            /\ (ignoreLayer \/ isAccessible(s, el))
            /\ \/ isFocusable(s, el, FALSE, FALSE)
               \/ findFirst(s, el, FALSE, FALSE, TRUE) # Null
         THEN el
         ELSE ScanGroups(s, NextCandidate(s, el, dir), dir, ignoreLayer)

\* _findNextGroup (lines 786-813); from is where the scan starts: "first" or
\* "last" child of the container's node, or the sibling "next" to or "prev"
\* of the node of the context's Group.
_findNextGroup(s, element, from, ignoreLayer) ==
    LET cur == findGroup(s, element)
        containerElement == IF cur # Null THEN s.parentElement[cur] ELSE Null
        container == IF containerElement # Null
                     THEN s.ahContainer[containerElement] ELSE None
        initial == IF from = "first"
                   THEN firstElementChild(s, s.cont[container]._element)
                   ELSE IF from = "last"
                   THEN lastElementChild(s, s.cont[container]._element)
                   ELSE IF from = "next" THEN nextElementSibling(s, cur)
                   ELSE previousElementSibling(s, cur)
    IN IF cur # Null /\ containerElement # Null /\ container # None
       THEN ScanGroups(s, initial, IF from \in {"first", "next"} THEN 1 ELSE -1,
                       ignoreLayer)
       ELSE Null

findFirstGroup(s, context, ignoreLayer) == _findNextGroup(s, context, "first", ignoreLayer)
findLastGroup(s, context, ignoreLayer) == _findNextGroup(s, context, "last", ignoreLayer)
findNextGroup(s, context, ignoreLayer) == _findNextGroup(s, context, "next", ignoreLayer)
findPrevGroup(s, context, ignoreLayer) == _findNextGroup(s, context, "prev", ignoreLayer)

(* ------------------------- Focusable: handlers ------------------------ *)
\* The Groups of element, element.parentElement, ... (lines 575-581).
EnclosingGroups(s, element) ==
    {s.ahGroup[e] : e \in {x \in SeqToSet(Ancestors(s, element)) : s.ahGroup[x] # None}}

RECURSIVE LeaveAll(_, _)
\* lines 583-589, for the ids of q in turn.
LeaveAll(s, q) ==
    IF q = <<>> THEN s
    ELSE LeaveAll(setUnlimited(setFocused(s, Head(q), FALSE), Head(q), FALSE), Tail(q))

RECURSIVE EnterAll(_, _, _)
\* lines 591-602, for the ids of q in turn.
EnterAll(s, q, element) ==
    IF q = <<>> THEN s
    ELSE LET g == Head(q)
             s1 == setFocused(s, g, TRUE)
             s2 == IF element # _getGroupFirst(s1, s1.group[g]._element, FALSE)
                   THEN setUnlimited(s1, g, TRUE) ELSE s1
         IN EnterAll(s2, Tail(q), element)

_onFocus_LeavesOnBlur(s, element) ==
    LET newFocusedGroups == IF element # Null THEN EnclosingGroups(s, element) ELSE {}
        s1 == LeaveAll(s, SetToSeq(s.focusedGroups \ newFocusedGroups))
        s2 == EnterAll(s1, SetToSeq(newFocusedGroups \ s.focusedGroups), element)
    IN [s2 EXCEPT !.focusedGroups = newFocusedGroups]

\* The focus subscription's handler (lines 571-606).
_onFocus(s, element) ==
    IF element # Null
    THEN LET newFocusedGroups == EnclosingGroups(s, element)
             s1 == LeaveAll(s, SetToSeq(s.focusedGroups \ newFocusedGroups))
             s2 == EnterAll(s1, SetToSeq(newFocusedGroups \ s.focusedGroups), element)
         IN [s2 EXCEPT !.focusedGroups = newFocusedGroups]
    ELSE s

\* A mutation event: e.details.group (None when the event is about
\* something else) and e.details.removed.
_onMutation(s, e) ==
    IF e.group = None THEN s ELSE setupContainer(s, e.group, e.removed)

\* The scroll timer's callback (lines 654-660).  scrollCallbacks counts the
\* callbacks the window still holds for the handler.
_onScrollTimer(s) ==
    [Container_updateVisible(s, SeqToSet(s.engine._scrollTargets)) EXCEPT
        !.engine._scrollTimer = FALSE,
        !.engine._scrollTargets = << >>,
        !.engine.scrollCallbacks = @ - 1]

\* The outcomes of (target instanceof Node) on line 646, Node being the
\* constructor of the window the engine runs in: a node of the embedded
\* document has that constructor in its prototype chain only when it was
\* created in the owning document and moved over.
InstanceOfNode(target) == IF InIFrame(target) THEN BOOLEAN ELSE {TRUE}

\* The scroll handler (lines 632-661); isNode is the outcome of
\* (e.target instanceof Node).
_onScroll(s, target, isNode) ==
    LET isKnownTarget == \E i \in 1..Len(s.engine._scrollTargets) :
                            s.engine._scrollTargets[i] = target
    IN [s EXCEPT !.engine._scrollTargets =
                     IF ~isKnownTarget /\ isNode THEN Append(@, target) ELSE @,
                 !.engine._scrollTimer = TRUE,
                 !.engine.scrollCallbacks =
                     (IF s.engine._scrollTimer THEN @ - 1 ELSE @) + 1]

\* The custom event's handler without the test of lines 609-611.
_onIFrameEvent_NoDetailsCheck(s, e) ==
    IF e.name = "scroll" THEN _onScroll(s, e.target, e.isNode)
    ELSE IF e.name = "mutation" THEN _onMutation(s, e)
    ELSE s

\* e: [targetDetails, name, target, group, removed, isNode]
_onIFrameEvent(s, e) ==
    IF ~e.targetDetails THEN s
    ELSE IF e.name = "scroll" THEN _onScroll(s, e.target, e.isNode)
    ELSE IF e.name = "mutation" THEN _onMutation(s, e)
    ELSE s

\* Is node n attached under the body of a document?
Connected(s, n) ==
    \/ contains(s, Body, n)
    \/ contains(s, IFrameBody, n)

\* A mutation event dispatched on element reaches _onMutation through the
\* listener of the owning document, or through the forwarded custom event
\* when element is in the embedded document.
HearMutation(s, element, e) ==
    IF InIFrame(element)
    THEN IF s.engine.listenIFrame
         THEN _onIFrameEvent(s, [targetDetails |-> TRUE, name |-> "mutation",
                                 target |-> element, group |-> e.group,
                                 removed |-> e.removed])
         ELSE s
    ELSE IF s.engine.listenMutation THEN _onMutation(s, e) ELSE s

\* dispatchMutationEvent(element, details): synchronous, bubbling from
\* element to its document.
dispatchMutationEvent(s, element, e) ==
    IF Connected(s, element) THEN HearMutation(s, element, e) ELSE s

\* throw new Error(...): the call ends here and the caller sees the error.
Thrown(s) == [s EXCEPT !.obs = [NoObs EXCEPT !.op = "throw"]]

Focusable_addGroup_ThrowsLate(s, element, props) ==
    LET s1 == Group_new(s, element, props)
    IN IF s.ahGroup[element] # None
       THEN Thrown(s1)
       ELSE dispatchMutationEvent(s1, element,
                                  [group |-> s1.lastGroupId, removed |-> FALSE])

\* addGroup(element, props) (lines 669-679).
Focusable_addGroup(s, element, props) ==
    IF s.ahGroup[element] # None
    THEN Thrown(s)
    ELSE LET s1 == Group_new(s, element, props)
         IN dispatchMutationEvent(s1, element,
                                  [group |-> s1.lastGroupId, removed |-> FALSE])

Focusable_removeGroup_ByEnclosing(s, element) ==
    LET g == _findGroup(s, element)
    IN IF g # None
       THEN dispatchMutationEvent(Group_dispose(s, g), element,
                                  [group |-> g, removed |-> TRUE])
       ELSE s

\* removeGroup(element) (lines 681-690).
Focusable_removeGroup(s, element) ==
    LET g == s.ahGroup[element]
    IN IF g # None
       THEN dispatchMutationEvent(Group_dispose(s, g), element,
                                  [group |-> g, removed |-> TRUE])
       ELSE s

Focusable_moveGroup(s, from, to) ==
    LET g == s.ahGroup[from]
    IN IF from # to /\ g # None
       THEN LET s1 == moveTo(s, g, to)
                s2 == dispatchMutationEvent(s1, from, [group |-> g, removed |-> TRUE])
            IN dispatchMutationEvent(s2, to, [group |-> g, removed |-> FALSE])
       ELSE s

Group_setProps(s, g, props) == [s EXCEPT !.group[g]._props = props]

Focusable_setGroupProps(s, element, props) ==
    LET g == _findGroup(s, element)
    IN IF g # None THEN Group_setProps(s, g, props) ELSE s

RECURSIVE MakeCurrentUpward(_, _)
\* The while loop of setCurrentGroup (lines 717-723).
MakeCurrentUpward(s, g) ==
    IF g = None THEN s
    ELSE LET s1 == makeCurrent(s, g)
             parentEl == s1.parentElement[s1.group[g]._element]
         IN MakeCurrentUpward(s1, IF parentEl # Null
                                  THEN _findGroup(s1, parentEl) ELSE None)

Focusable_setCurrentGroup(s, element) == MakeCurrentUpward(s, _findGroup(s, element))

\* props: "null", or "props" for an object of container properties.
setGroupContainerProps(s, element, props) ==
    LET c == s.ahContainer[element]
    IN IF c # None
       THEN IF props = "null" /\ isEmpty(s, c)
            THEN Container_dispose(s, c)
            ELSE [s EXCEPT !.cont[c]._props = (props # "null")]
       ELSE IF props # "null" THEN Container_new(s, element, TRUE) ELSE s

_init(s) ==
    [s EXCEPT !.engine._initTimer = FALSE,
              !.engine.listenMutation = TRUE,
              !.engine.listenIFrame = TRUE,
              !.engine.listenScroll = TRUE,
              !.engine.subscribed = TRUE]

Focusable_dispose(s) ==
    [s EXCEPT !.engine._initTimer = FALSE,
              !.engine._scrollTimer = FALSE,
              !.engine.scrollCallbacks =
                  IF s.engine._scrollTimer THEN @ - 1 ELSE @,
              !.engine.listenMutation = FALSE,
              !.engine.listenIFrame = FALSE,
              !.engine.subscribed = FALSE,
              !.engine.disposed = TRUE]

\* The Focusable after its constructor (lines 526-534).  missed records that
\* a mutation signal about a Group found no listener registered.
NewEngine ==
    [_initTimer |-> TRUE, _scrollTimer |-> FALSE, _scrollTargets |-> << >>,
     scrollCallbacks |-> 0,
     listenMutation |-> FALSE, listenIFrame |-> FALSE, listenScroll |-> FALSE,
     subscribed |-> FALSE, disposed |-> FALSE, missed |-> FALSE]

(* --------------------------- the environment -------------------------- *)
RECURSIVE Subtree(_, _)
Subtree(s, n) ==
    {n} \cup UNION {Subtree(s, m) : m \in Children(s, n)}

\* The mutation observer: a signal for every Group-owning node of a subtree
\* that left (removed) or entered the tree.
ObservedSignals(s, n, removed) ==
    {[target |-> m, group |-> s.ahGroup[m], removed |-> removed] :
        m \in {x \in Subtree(s, n) : s.ahGroup[x] # None}}

DomRemoveChild(s, n) ==
    [s EXCEPT !.parentElement[n] = Null,
              !.pending = @ \cup ObservedSignals(s, n, TRUE)]

DomAppendChild(s, n) ==
    [s EXCEPT !.parentElement[n] = HomeParent[n],
              !.pending = @ \cup ObservedSignals(s, n, FALSE)]

(* ------------------------------- inputs ------------------------------- *)
\* The nodes an application puts Groups on, and the nodes it moves.
GroupNodes == {2, 3, 4, 5, 8}
MovableNodes == {3, 4}

\* The property objects an application passes.
PlainProps == GroupProps(FALSE, "Unlimited", "Undefined", FALSE, TRUE)
LimitedProps == GroupProps(FALSE, "Limited", "Undefined", FALSE, TRUE)
MemorizeProps == GroupProps(TRUE, "Unlimited", Invisible, TRUE, FALSE)
PropsChoices == {PlainProps, LimitedProps, MemorizeProps}

PlainNode == [matches |-> FALSE, tabIndexNeg |-> FALSE, hidden |-> FALSE,
              ariaHidden |-> FALSE]
FocusableNode == [PlainNode EXCEPT !.matches = TRUE]

\* The state after new Focusable(ah, mainWindow) on a page whose nodes 2, 4,
\* 5, 6 and 8 are focusable and that has no modality layer.
Fresh ==
    [parentElement |-> HomeParent,
     nodeAttrs |-> [n \in Nodes |-> IF n \in {2, 4, 5, 6, 8}
                                     THEN FocusableNode ELSE PlainNode],
     ahGroup |-> [n \in Nodes |-> None],
     ahContainer |-> [n \in Nodes |-> None],
     ahFocusable |-> [n \in Nodes |-> [isDefault |-> FALSE, isIgnored |-> FALSE]],
     ahLayer |-> [n \in Nodes |-> NoLayer],
     currentLayerId |-> None,
     lastGroupId |-> 0,
     lastContainerId |-> 0,
     group |-> [g \in GroupIds |-> NoGroup],
     cont |-> [c \in ContainerIds |-> NoContainer],
     containers |-> {},
     focusedGroups |-> {},
     engine |-> NewEngine,
     pending |-> {},
     obs |-> NoObs,
     ops |-> 0]

WithinBounds(s) ==
    /\ s.lastGroupId <= MaxGroups
    /\ s.lastContainerId <= MaxContainers

\* A timer or a signal in flight takes the state to s.
Step(s) == WithinBounds(s) /\ Commit(s)
\* An operation of the application or of the environment takes it to s.
Op(s) == ops < MaxOps /\ Step([s EXCEPT !.ops = @ + 1])
Quiet(s) == [s EXCEPT !.obs = NoObs]

(* ------------------------------- actions ------------------------------ *)
\* Each action takes the inputs it draws from; the specifications below name
\* the input sets they explore.
InitTimer ==
    /\ engine._initTimer
    /\ Step(Quiet(_init(St)))

Dispose ==
    /\ ~engine.disposed
    /\ Op(Quiet(Focusable_dispose(St)))

AddGroup(elements, propsSet) ==
    \E element \in elements, props \in propsSet :
        /\ ahGroup[element] = None
        /\ Op(Quiet(Focusable_addGroup(St, element, props)))

\* A call of a public method with its arguments on record: the method, the
\* node it was called on and, for moveGroup, the node moved to.
CallObs(op, element, to) ==
    [NoObs EXCEPT !.op = op, !.result = element, !.container = to]

\* addGroup on a node that owns a Group: the call ends with an error.
AddGroupThrows(elements, propsSet) ==
    \E element \in elements, props \in propsSet :
        /\ ahGroup[element] # None
        /\ Op(Focusable_addGroup(St, element, props))

RemoveGroup(elements) ==
    \E element \in elements :
        Op([Focusable_removeGroup(St, element) EXCEPT
               !.obs = CallObs("removeGroup", element, Null)])

\* A move into the subtree of the node that keeps owning the Group is left
\* out: the outward loops of lines 717 and 745 do not terminate after it.
MoveGroup(froms, tos) ==
    \E from \in froms, to \in tos :
        /\ ~contains(St, from, to) \/ from = to
        /\ Op([Focusable_moveGroup(St, from, to) EXCEPT
                  !.obs = CallObs("moveGroup", from, to)])

SetGroupProps(elements, propsSet) ==
    \E element \in elements, props \in propsSet :
        Op([Focusable_setGroupProps(St, element, props) EXCEPT
               !.obs = CallObs("setGroupProps", element, Null)])

\* obs.calls lists the Groups made current, obs.container the Container
\* addressed directly (None when the Focus Engine was asked).
SetCurrentGroup(elements) ==
    \E element \in elements :
        Op([Focusable_setCurrentGroup(St, element) EXCEPT
               !.obs = [NoObs EXCEPT !.op = "setCurrentGroup",
                                     !.calls = SetToSeq(EnclosingGroups(St, element)),
                                     !.result = element]])

\* FocusableGroupContainer.setCurrentGroup(group) called on a Container with
\* any constructed Group, member or not.
ContainerSetCurrentGroup(cs, gs) ==
    \E c \in cs \cap containers :
        \E g \in {x \in gs : group[x] # NoGroup} :
            Op([Container_setCurrentGroup(St, c, g) EXCEPT
                   !.obs = [NoObs EXCEPT !.op = "setCurrentGroup",
                                         !.container = c,
                                         !.calls = <<g>>]])

SetGroupContainerProps(elements) ==
    \E element \in elements, props \in {"null", "props"} :
        Op([setGroupContainerProps(St, element, props) EXCEPT
               !.obs = CallObs("setGroupContainerProps", element, Null)])

\* ah.focusedElement notifies its subscribers; Null is focus on nothing.
Focus(elements) ==
    \E element \in elements :
        /\ engine.subscribed
        /\ element # Null => Connected(St, element)
        /\ Op([_onFocus(St, element) EXCEPT
                  !.obs = [NoObs EXCEPT !.op = "focus", !.result = element]])

\* A node leaves or re-enters the tree; the observer's signals are in flight.
RemoveChild(nodes) ==
    \E n \in nodes :
        /\ parentElement[n] # Null
        /\ Op(Quiet(DomRemoveChild(St, n)))

AppendChild(nodes) ==
    \E n \in nodes :
        /\ parentElement[n] = Null
        /\ Op(Quiet(DomAppendChild(St, n)))

\* Does a mutation event dispatched on element find a listener?
Heard(s, element) ==
    IF InIFrame(element) THEN s.engine.listenIFrame ELSE s.engine.listenMutation

\* A signal in flight reaches the listener, if one is registered.
MutationSignal ==
    \E e \in pending :
        LET s1 == [St EXCEPT !.pending = @ \ {e}]
        IN Step(Quiet(IF Heard(s1, e.target)
                      THEN HearMutation(s1, e.target, e)
                      ELSE [s1 EXCEPT !.engine.missed = TRUE]))

\* A scroll event with the given target: heard by the window's scroll
\* listener, or forwarded from the embedded document.
Scroll(targets) ==
    \E target \in targets : \E isNode \in InstanceOfNode(target) :
        /\ IF InIFrame(target) THEN engine.listenIFrame ELSE engine.listenScroll
        /\ Op([(IF InIFrame(target)
                 THEN _onIFrameEvent(St, [targetDetails |-> TRUE, name |-> "scroll",
                                          target |-> target, group |-> None,
                                          removed |-> FALSE, isNode |-> isNode])
                 ELSE _onScroll(St, target, isNode))
               EXCEPT !.obs = CallObs("onScroll", target, None)])

ScrollTimer ==
    /\ engine.scrollCallbacks > 0
    /\ Step(_onScrollTimer(St))

OnChangeTimer ==
    \E c \in ContainerIds :
        /\ cont[c].onChangeCallbacks > 0
        /\ Step(onChangeTimerFired(St, c))

\* levels: the answers the Visibility Classifier gives in this exploration.
UpdateVisibleTimer(levels) ==
    \E c \in ContainerIds :
        /\ cont[c].updateVisibleCallbacks > 0
        /\ \E classify \in [GroupIds -> levels \cup {Invisible}] :
              /\ \A g \in GroupIds \ cont[c]._groups : classify[g] = Invisible
              /\ \A g \in cont[c]._groups : classify[g] \in levels
              /\ Step(updateVisibleTimerFired(St, c, classify))

\* The find operations: obs records the call and what it returned.
FindObs(op, context, current, flags, result) ==
    [op |-> op, container |-> context,
     calls |-> IF current = Null THEN <<>> ELSE <<current>>,
     result |-> result, flags |-> flags, dropped |-> {},
     classified |-> NoVisibleGroups, lostFocus |-> None]

FlagChoices ==
    [includeProgrammaticallyFocusable : BOOLEAN, ignoreLayer : BOOLEAN,
     ignoreGroup : BOOLEAN]

FindFirst(contexts) ==
    \E context \in contexts, fl \in FlagChoices :
        /\ obs.op = "none"
        /\ Step([St EXCEPT !.obs =
               FindObs("findFirst", context, Null, fl,
                       findFirst(St, context, fl.includeProgrammaticallyFocusable,
                                 fl.ignoreLayer, fl.ignoreGroup))])

FindLast(contexts) ==
    \E context \in contexts, fl \in FlagChoices :
        /\ obs.op = "none"
        /\ Step([St EXCEPT !.obs =
               FindObs("findLast", context, Null, fl,
                       findLast(St, context, fl.includeProgrammaticallyFocusable,
                                fl.ignoreLayer, fl.ignoreGroup))])

FindDefault(contexts) ==
    \E context \in contexts, fl \in FlagChoices :
        /\ obs.op = "none"
        /\ Step([St EXCEPT !.obs =
               FindObs("findDefault", context, Null, fl,
                       findDefault(St, context, fl.includeProgrammaticallyFocusable,
                                   fl.ignoreLayer, fl.ignoreGroup))])

FindNext(currents, contexts) ==
    \E current \in currents, context \in contexts, fl \in FlagChoices :
        /\ obs.op = "none"
        /\ Step([St EXCEPT !.obs =
               FindObs("findNext", context, current, fl,
                       findNext(St, current, context,
                                fl.includeProgrammaticallyFocusable,
                                fl.ignoreLayer, fl.ignoreGroup))])

FindPrev(currents, contexts) ==
    \E current \in currents, context \in contexts, fl \in FlagChoices :
        /\ obs.op = "none"
        /\ Step([St EXCEPT !.obs =
               FindObs("findPrev", context, current, fl,
                       findPrev(St, current, context,
                                fl.includeProgrammaticallyFocusable,
                                fl.ignoreLayer, fl.ignoreGroup))])

\* The four sibling-Group scans: obs records the call and what it returned.
FindGroupObs(op, context, ignoreLayer, result) ==
    [op |-> op, container |-> context, calls |-> <<>>, result |-> result,
     flags |-> [NoFlags EXCEPT !.ignoreLayer = ignoreLayer], dropped |-> {},
     classified |-> NoVisibleGroups, lostFocus |-> None]

FindFirstGroup(contexts) ==
    \E context \in contexts, ignoreLayer \in BOOLEAN :
        /\ obs.op = "none"
        /\ Step([St EXCEPT !.obs =
               FindGroupObs("findFirstGroup", context, ignoreLayer,
                            findFirstGroup(St, context, ignoreLayer))])

FindLastGroup(contexts) ==
    \E context \in contexts, ignoreLayer \in BOOLEAN :
        /\ obs.op = "none"
        /\ Step([St EXCEPT !.obs =
               FindGroupObs("findLastGroup", context, ignoreLayer,
                            findLastGroup(St, context, ignoreLayer))])

FindNextGroup(contexts) ==
    \E context \in contexts, ignoreLayer \in BOOLEAN :
        /\ obs.op = "none"
        /\ Step([St EXCEPT !.obs =
               FindGroupObs("findNextGroup", context, ignoreLayer,
                            findNextGroup(St, context, ignoreLayer))])

FindPrevGroup(contexts) ==
    \E context \in contexts, ignoreLayer \in BOOLEAN :
        /\ obs.op = "none"
        /\ Step([St EXCEPT !.obs =
               FindGroupObs("findPrevGroup", context, ignoreLayer,
                            findPrevGroup(St, context, ignoreLayer))])

\* Every member's node is fully visible.
AllVisible(s, c) ==
    [g \in GroupIds |-> IF g \in s.cont[c]._groups THEN Visible ELSE Invisible]

\* The page of the scenarios: the engine is initialised, the application has
\* put an unlimited Group on node 2, a Limited one on node 3 and a third one
\* on node 4, and the Container of the body has run both its passes.
Page ==
    LET s1 == Focusable_addGroup(_init(Fresh), 2, PlainProps)
        s2 == Focusable_addGroup(s1, 3, LimitedProps)
        s3 == Focusable_addGroup(s2, 4, PlainProps)
        c == s3.ahContainer[Body]
        s4 == updateVisibleTimerFired(s3, c, AllVisible(s3, c))
    IN Quiet(onChangeTimerFired(s4, c))

(* --------------------------- specifications --------------------------- *)
\* Membership and pointers: Groups are added, removed and made current, and
\* nodes leave and re-enter the tree; every node is classified fully visible.
Init == StateIs(Fresh) \/ StateIs(Page)

Next ==
    \/ InitTimer
    \/ AddGroup({2, 3, 4, 5}, {PlainProps})
    \/ RemoveGroup({2, 3, 4, 5})
    \/ SetCurrentGroup({2, 3, 4, 5})
    \/ ContainerSetCurrentGroup(ContainerIds, GroupIds)
    \/ Focus({Body, 2, 5, 6, Null})
    \/ SetGroupProps({3}, {PlainProps, LimitedProps})
    \/ RemoveChild(MovableNodes)
    \/ AppendChild(MovableNodes)
    \/ MutationSignal
    \/ OnChangeTimer
    \/ UpdateVisibleTimer({Visible})

Spec == Init /\ [][Next]_vars

\* The walk: pages that differ in their modality layers, the tracked
\* current layer id, the focusable attributes of their nodes and the
\* current, focused and unlimited Groups; the find operations are applied
\* to each.
LayerIds == 1..MaxLayerIds

LayerChoices ==
    {NoLayer, Layer(1, TRUE, TRUE), Layer(1, FALSE, FALSE)}
        \cup {Layer(id, TRUE, FALSE) : id \in LayerIds}

\* Node 3 focusable as well and node 5 reachable by script only; node 6
\* hidden from assistive technology and node 4 the default focusable.
AttrChoices ==
    {Fresh.nodeAttrs,
     [Fresh.nodeAttrs EXCEPT ![3] = FocusableNode, ![5].tabIndexNeg = TRUE],
     [Fresh.nodeAttrs EXCEPT ![6].ariaHidden = TRUE]}

GroupStates ==
    {_init(Fresh)} \cup
    UNION {{p,
            Focusable_setCurrentGroup(p, 2),
            Focusable_setCurrentGroup(p, 5),
            _onFocus(p, 6),
            _onFocus(Focusable_setCurrentGroup(p, 3), 5)} : p \in {Page}}

FindPages ==
    {[base EXCEPT
         !.ahLayer = [n \in Nodes |-> IF n = Body THEN onBody
                                      ELSE IF n = 3 THEN on3
                                      ELSE IF n = 5 THEN on5 ELSE NoLayer],
         !.currentLayerId = cur,
         !.nodeAttrs = attrs,
         !.ahFocusable[4].isDefault = TRUE,
         !.obs = NoObs] :
        base \in GroupStates,
        onBody \in {NoLayer, Layer(1, TRUE, FALSE)},
        on3 \in LayerChoices,
        on5 \in {NoLayer, Layer(MaxLayerIds, TRUE, FALSE)},
        cur \in LayerIds \cup {None},
        attrs \in AttrChoices}

InitFind == \E s \in FindPages : StateIs(s)

NextFind ==
    \/ FindFirst({Body, 3})
    \/ FindLast({Body, 3})
    \/ FindDefault({Body})
    \/ FindNext({Body, 2, 3, 4, 5, 6}, {Body, 3})
    \/ FindPrev({Body, 2, 3, 4, 5, 6}, {Body, 3})

SpecFind == InitFind /\ [][NextFind]_vars

\* The sibling-Group scans on the same pages, also with node 2 or the nodes
\* inside the Group of node 3 hidden, or node 3 hidden from assistive
\* technology, in the last case also with an inactive modality layer on
\* node 5 beneath it.
VeilChoices ==
    {[hidden |-> {}, ariaHidden |-> {}, inactive |-> {}],
     [hidden |-> {2}, ariaHidden |-> {}, inactive |-> {}],
     [hidden |-> {5, 6}, ariaHidden |-> {}, inactive |-> {}],
     [hidden |-> {}, ariaHidden |-> {3}, inactive |-> {}],
     [hidden |-> {}, ariaHidden |-> {3}, inactive |-> {5}]}

InitFindGroup ==
    \E s \in FindPages, veil \in VeilChoices :
        StateIs([s EXCEPT
                    !.nodeAttrs =
                        [n \in Nodes |->
                            [s.nodeAttrs[n] EXCEPT
                                !.hidden = @ \/ n \in veil.hidden,
                                !.ariaHidden = @ \/ n \in veil.ariaHidden]],
                    !.ahLayer =
                        [n \in Nodes |->
                            IF n \in veil.inactive THEN Layer(1, FALSE, FALSE)
                            ELSE s.ahLayer[n]]])

NextFindGroup ==
    \/ FindFirstGroup({Body, 2, 4, 6})
    \/ FindLastGroup({Body, 2, 4, 6})
    \/ FindNextGroup({Body, 2, 4, 6})
    \/ FindPrevGroup({Body, 2, 4, 6})

SpecFindGroup == InitFindGroup /\ [][NextFindGroup]_vars

\* Scrolling: a page with a Container on the body and one in the embedded
\* document, and a page with a Container on the body and one on node 3;
\* scroll events arrive from both documents and the timers fire.
Settle(s, c) ==
    Quiet(onChangeTimerFired(updateVisibleTimerFired(s, c, AllVisible(s, c)), c))

EmbeddedPage ==
    LET s1 == Focusable_addGroup(Page, 8, PlainProps)
    IN Settle(s1, s1.ahContainer[IFrameBody])

NestedPage ==
    LET s1 == Focusable_addGroup(_init(Fresh), 2, PlainProps)
        s2 == Focusable_addGroup(s1, 5, PlainProps)
    IN Settle(Settle(s2, s2.ahContainer[Body]), s2.ahContainer[3])

InitScroll == StateIs(EmbeddedPage) \/ StateIs(NestedPage)

NextScroll ==
    \/ Scroll({Body, 2, 3, IFrameBody, 8})
    \/ ScrollTimer
    \/ RemoveChild({3})
    \/ MutationSignal
    \/ UpdateVisibleTimer({PartiallyVisible, Visible})
    \/ OnChangeTimer

SpecScroll == InitScroll /\ [][NextScroll]_vars

\* The public methods called on nodes that own a Group, on nodes that own
\* none and on nodes whose Group was removed, with the container-level
\* properties set and reset; node 3 leaves and re-enters the tree.
NextOps ==
    \/ InitTimer
    \/ AddGroup({3, 5}, {PlainProps})
    \/ AddGroupThrows({2, 3}, {PlainProps})
    \/ RemoveGroup({2, 5})
    \/ MoveGroup({2, 5}, {4, 5, 6})
    \/ SetGroupProps({2, 6}, {LimitedProps})
    \/ SetCurrentGroup({2, 6})
    \/ SetGroupContainerProps({3})
    \/ RemoveChild({3})
    \/ AppendChild({3})
    \/ MutationSignal
    \/ OnChangeTimer
    \/ UpdateVisibleTimer({Visible})

SpecOps == Init /\ [][NextOps]_vars

\* Visibility: on the page of the scenarios the Visibility Classifier gives
\* every answer, a Group is made current, the first Group's visibility
\* lookup is disabled, node 3 leaves and re-enters the tree and the body is
\* scrolled.
NextVisibility ==
    \/ SetCurrentGroup({2, 3})
    \/ SetGroupProps({2}, {MemorizeProps})
    \/ RemoveChild({3})
    \/ AppendChild({3})
    \/ MutationSignal
    \/ Scroll({Body})
    \/ ScrollTimer
    \/ OnChangeTimer
    \/ UpdateVisibleTimer({Invisible, PartiallyVisible, Visible})

InitVisibility == \E p \in {Page} : StateIs(p)

SpecVisibility == InitVisibility /\ [][NextVisibility]_vars


\* Focus: on the page of the scenarios focus moves between the Groups and
\* out of them, a Group is made current and the first Group's properties
\* are replaced by ones that memorize the current Group, or back.
NextFocus ==
    \/ Focus({Body, 2, 4, 6})
    \/ SetCurrentGroup({2, 3})
    \/ SetGroupProps({2}, {MemorizeProps, PlainProps})
    \/ OnChangeTimer

InitFocus ==
    \E p \in {Page} :
        \/ StateIs(p)
        \/ StateIs(Quiet(Focusable_setCurrentGroup(
                            Focusable_setGroupProps(p, 2, MemorizeProps), 2)))

SpecFocus == InitFocus /\ [][NextFocus]_vars

\* The end of the Focus Engine: dispose is called before or after the
\* deferred initialisation, on a page without Groups and on the page of
\* the scenarios; scroll events of the page and of the embedded document,
\* focus changes and mutation signals keep arriving and the timers fire.
NextDispose ==
    \/ InitTimer
    \/ Dispose
    \/ Scroll({Body, 2, 8})
    \/ ScrollTimer
    \/ Focus({2, Null})
    \/ RemoveChild({3})
    \/ MutationSignal
    \/ UpdateVisibleTimer({Visible})
    \/ OnChangeTimer

InitDispose == \E p \in {Fresh, Page} : StateIs(p)

SpecDispose == InitDispose /\ [][NextDispose]_vars

(* -------------------------------- claims ------------------------------ *)
\* This step is the change-propagation pass of container c.
PassOf(c) ==
    /\ cont[c]._onChangeTimer
    /\ obs'.op = "onChange"
    /\ obs'.container = c

\* How often g's callback is invoked in the pass just observed.
Invocations(g) == Cardinality({i \in 1..Len(obs.calls) : obs.calls[i] = g})

\* Member g of c is affected by the pass that takes c from its state before
\* to its state after: the focused Group changed, or a pointer that changed
\* since the last snapshot referenced g before or references it now, or g's
\* visibility entry differs from the snapshot.
Affected(before, after, g) ==
    \/ before._prevFocused # after._focused
    \/ \E ptr \in {<<before._prevCurrent, after._current>>,
                   <<before._prevPrev, after._prev>>,
                   <<before._prevNext, after._next>>,
                   <<before._prevFirst, after._first>>,
                   <<before._prevLast, after._last>>,
                   <<before._prevUnlimited, after._unlimited>>} :
           ptr[1] # ptr[2] /\ g \in {ptr[1], ptr[2]}
    \/ before._prevVisibleGroups[g] # after._visibleGroups[g]

\* C1: in one change-propagation pass of a Container the change callback of
\* each member Group is invoked at most once, and exactly once when the
\* Group is affected, however many pointers or visibility entries changed
\* for it since the previous pass.
C1_OneCallbackPerAffectedGroup ==
    [][\A c \in ContainerIds : PassOf(c) =>
          \A g \in GroupIds :
              /\ Invocations(g)' <= 1
              /\ (g \in cont[c]._groups /\ group[g]._props.onChange
                    /\ Affected(cont[c], cont'[c], g))
                 => Invocations(g)' = 1
              /\ (g \in cont[c]._groups /\ ~Affected(cont[c], cont'[c], g))
                 => Invocations(g)' = 0]_vars

\* A pass has just invoked one callback for a member that two pointers and
\* a visibility entry changed for.
C1_Witness ==
    \E c \in containers, g \in GroupIds :
        /\ obs.op = "onChange" /\ obs.container = c
        /\ Invocations(g) = 1
        /\ cont[c]._first = g /\ cont[c]._last = g
        /\ cont[c]._visibleGroups[g] = Visible

\* No timer of container c is pending, no mutation signal is in flight and
\* none went unheard: the debounced passes have settled.
Settled(s, c) ==
    /\ ~s.cont[c]._onChangeTimer
    /\ ~s.cont[c]._updateVisibleTimer
    /\ s.pending = {}
    /\ ~s.engine.missed

\* The direct children of c's node that own a Group which is a member of c.
OwningChildren(s, c) ==
    {e \in Children(s, s.cont[c]._element) :
        s.ahGroup[e] # None /\ s.ahGroup[e] \in s.cont[c]._groups}

\* C2: once the passes of a Container have settled, first and last are the
\* Groups owned by the first and the last direct child of the container's
\* node among the children whose Group is a member, undefined if there is
\* none.
C2_FirstLastAfterSettle ==
    \A c \in containers :
        Settled(St, c) =>
            /\ cont[c]._first = (IF OwningChildren(St, c) = {} THEN None
                                 ELSE ahGroup[Min(OwningChildren(St, c))])
            /\ cont[c]._last = (IF OwningChildren(St, c) = {} THEN None
                                ELSE ahGroup[Max(OwningChildren(St, c))])

\* This step made g current on c: setCurrentGroup was the operation, and it
\* addressed c with g directly or reached c as g's Container.
MadeCurrentOn(c, g) ==
    /\ obs.op = "setCurrentGroup"
    /\ \E i \in 1..Len(obs.calls) : obs.calls[i] = g
    /\ \/ obs.container = c
       \/ obs.container = None /\ group[g]._container = c

\* The Groups owned by the siblings of node n that come before (dir < 0) or
\* after (dir > 0) n under n's parent, nearest first in nearness.
OwningSiblings(n, dir) ==
    {m \in Nodes : /\ parentElement[n] # Null
                   /\ parentElement[m] = parentElement[n]
                   /\ ahGroup[m] # None
                   /\ (dir < 0 => m < n) /\ (dir > 0 => m > n)}

\* current, previous and next of c are what setCurrentGroup(g) promises.
CurrentIs(c, g) ==
    IF g \in cont[c]._groups
    THEN LET n == group[g]._element
             before == OwningSiblings(n, -1)
             after == OwningSiblings(n, 1)
         IN /\ cont[c]._current = g
            /\ parentElement[n] \in {cont[c]._element, Null}
            /\ cont[c]._prev = (IF before = {} THEN None
                                ELSE ahGroup[CHOOSE m \in before : \A k \in before : k <= m])
            /\ cont[c]._next = (IF after = {} THEN None
                                ELSE ahGroup[CHOOSE m \in after : \A k \in after : m <= k])
    ELSE /\ cont[c]._current = None
         /\ cont[c]._prev = None
         /\ cont[c]._next = None

NoCurrent(c) ==
    /\ cont[c]._current = None
    /\ cont[c]._prev = None
    /\ cont[c]._next = None

\* C3 as stated: after setCurrentGroup(g) on a Container and the pass that
\* settles it, previous and next are the Groups of the nearest group-owning
\* sibling nodes before and after g's node among the direct children of the
\* container's node, undefined when there is none; when g is not a member,
\* current, previous and next are all undefined.
C3_SetCurrentThenSettle ==
    [][\A c \in ContainerIds, g \in GroupIds :
          (MadeCurrentOn(c, g) /\ PassOf(c)) => CurrentIs(c, g)']_vars

\* C3 amended: setCurrentGroup(g) leaves current, previous and next as
\* stated at once, and the pass that follows keeps them, unless that pass
\* finds that focus left a Group that does not memorize the current Group
\* since the pass before: then it clears all three.
C3_SetCurrentUnlessFocusLost ==
    [][\A c \in ContainerIds, g \in GroupIds :
          /\ MadeCurrentOn(c, g)' => CurrentIs(c, g)'
          /\ (MadeCurrentOn(c, g) /\ PassOf(c)) =>
                IF FocusLost(St, cont[c]) THEN NoCurrent(c)' ELSE CurrentIs(c, g)']_vars

\* A pass has settled a setCurrentGroup on a Group between two group-owning
\* siblings.
C3_Witness ==
    \E c \in containers :
        /\ obs.op = "onChange" /\ obs.container = c
        /\ cont[c]._current # None
        /\ cont[c]._prev # None
        /\ cont[c]._next # None
        /\ cont[c]._prevCurrent = cont[c]._current

\* The derived pointers of a Container.
Pointers(cr) ==
    {cr._current, cr._prev, cr._next, cr._first, cr._last, cr._focused,
     cr._unlimited}

\* C4: in every reachable state each derived pointer of a Container
\* (current, previous, next, first, last, focused, unlimited) is undefined
\* or references a Group of the membership set; a Group that removeGroup
\* took out is referenced by no pointer afterwards.
C4_PointersReferenceMembers ==
    \A c \in containers : Pointers(cont[c]) \subseteq cont[c]._groups \cup {None}

\* g is a member of the Container it is bound to.
IsMember(g) ==
    /\ group[g] # NoGroup
    /\ group[g]._container # None
    /\ g \in cont[group[g]._container]._groups

\* getState(g).isLimited as the Group reports it now.
LimitedNow(g) == getState(St, g).isLimited

\* C5: for a member Group g, isLimited is true exactly when g's focus-limit
\* mode is Limited or LimitedTrapFocus and g is not the unlimited Group of
\* its Container.  While g stays a member with the same properties it turns
\* false only in the step in which focus enters g and setUnlimited(true) is
\* invoked, it is false in the very state in which g is the unlimited Group
\* (a pass may still be pending), and it is false in Unlimited mode.
C5_IsLimited ==
    [][\A g \in GroupIds :
          (IsMember(g) /\ IsMember(g)' /\ group'[g]._props = group[g]._props
             /\ group'[g]._container = group[g]._container)
          => LET c == group[g]._container
             IN /\ LimitedNow(g)' <=> (/\ IsLimitedMode(group[g]._props)
                                       /\ cont'[c]._unlimited # g)
                /\ (LimitedNow(g) /\ ~LimitedNow(g)')
                      => (g \notin focusedGroups /\ g \in focusedGroups')
                /\ cont'[c]._unlimited = g => ~LimitedNow(g)'
                /\ ~IsLimitedMode(group[g]._props) => ~LimitedNow(g)']_vars

\* A Limited member has just become the unlimited Group: it reports
\* isLimited false although the change pass has not run yet; another
\* Limited member still reports true.
C5_Witness ==
    \E g \in GroupIds :
        /\ IsMember(g)
        /\ IsLimitedMode(group[g]._props)
        /\ cont[group[g]._container]._unlimited = g
        /\ cont[group[g]._container]._prevUnlimited # g
        /\ cont[group[g]._container]._onChangeTimer
        /\ ~LimitedNow(g)

\* This step processed a focus change onto node n, a descendant of the node
\* that owns Limited Group g2 other than g2's first focusable node, with
\* focus outside g2 before; g1 is a sibling member of the same Container that is
\* not limited.
FocusIntoNonEntry(g1, g2, n) ==
    /\ g1 # g2 /\ IsMember(g1) /\ IsMember(g2)
    /\ group[g1]._container = group[g2]._container
    /\ ~IsLimitedMode(group[g1]._props)
    /\ group[g2]._props.isLimited = "Limited"
    /\ g2 \notin focusedGroups
    /\ ahGroup[group[g2]._element] = g2
    /\ n # group[g2]._element
    /\ contains(St, group[g2]._element, n)
    /\ n # _getGroupFirst(St, group[g2]._element, TRUE)
    /\ obs'.op = "focus" /\ obs'.result = n

\* C6 as stated: Container with sibling Groups G1 (not limited) and G2
\* (Limited); once a focus change from outside G2 onto a descendant of G2
\* that is not G2's first-focusable entry point is processed, G2 reports
\* isLimited true and G1 reports siblingHasFocus true.
C6_NonEntryFocusKeepsLimited ==
    [][\A g1 \in GroupIds, g2 \in GroupIds, n \in Nodes :
          FocusIntoNonEntry(g1, g2, n) =>
              /\ LimitedNow(g2)'
              /\ getState(St, g1)'.siblingHasFocus]_vars

\* C6 amended: in that scenario the focus change makes G2 the unlimited
\* Group of the Container, so G2 reports isLimited false (the limit is
\* lifted for the visit), hasFocus true, and G1 reports siblingHasFocus true.
C6_NonEntryFocusLiftsLimit ==
    [][\A g1 \in GroupIds, g2 \in GroupIds, n \in Nodes :
          FocusIntoNonEntry(g1, g2, n) =>
              /\ ~LimitedNow(g2)'
              /\ cont'[group[g2]._container]._unlimited = g2
              /\ getState(St, g2)'.hasFocus
              /\ getState(St, g1)'.siblingHasFocus]_vars

\* Focus has just landed on node 6, the second focusable node of the
\* Limited Group of node 3, next to the unlimited Group of node 2.
C6_Witness ==
    /\ obs.op = "focus" /\ obs.result = 6
    /\ \E g1 \in GroupIds, g2 \in GroupIds :
           /\ g1 # g2 /\ IsMember(g1) /\ IsMember(g2)
           /\ group[g1]._container = group[g2]._container
           /\ ~IsLimitedMode(group[g1]._props)
           /\ group[g2]._props.isLimited = "Limited"
           /\ group[g2]._element = 3
           /\ _getGroupFirst(St, 3, TRUE) = 5
           /\ cont[group[g2]._container]._focused = g2
           /\ cont[group[g2]._container]._prevFocused # g2

\* This step processed the removal signal of Group g, member of Container
\* c with at least one other member, while g's node is out of the tree and
\* a listener is registered for the signal.
RemovalProcessed(c, g) ==
    /\ g \in cont[c]._groups
    /\ Cardinality(cont[c]._groups) >= 2
    /\ parentElement[group[g]._element] = Null
    /\ \E e \in pending :
           /\ e.group = g /\ e.removed
           /\ Heard(St, e.target)
           /\ pending' = pending \ {e}

\* g is not a member of c and has no entry in either visibility mapping.
Purged(c, g) ==
    /\ g \notin cont[c]._groups
    /\ cont[c]._visibleGroups[g] = Invisible
    /\ cont[c]._prevVisibleGroups[g] = Invisible

\* This step is one of the two passes of c.
SettlingStep(c) ==
    /\ parentElement' = parentElement /\ pending' = pending /\ ops' = ops
    /\ \/ cont[c]._onChangeTimer /\ ~cont'[c]._onChangeTimer
       \/ cont[c]._updateVisibleTimer /\ ~cont'[c]._updateVisibleTimer

\* C7: when the node of one Group of a Container with two or more members
\* is taken out of the tree and the removal signal is processed, the
\* Container is not empty, the other Groups remain members, the removed
\* Group is no member and its id is in neither visibility mapping; the
\* passes that settle the Container keep all of that.
C7_RemovedGroupPurged ==
    [][\A c \in ContainerIds, g \in GroupIds :
          /\ RemovalProcessed(c, g) =>
                /\ ~isEmpty(St, c)'
                /\ cont'[c]._groups = cont[c]._groups \ {g}
                /\ Purged(c, g)'
          /\ (Purged(c, g) /\ SettlingStep(c)) =>
                /\ Purged(c, g)'
                /\ cont'[c]._groups = cont[c]._groups]_vars

\* The Group of node 3 was removed by its signal, the passes have run, and
\* two members are left.
C7_Witness ==
    \E c \in containers, g \in GroupIds :
        /\ group[g] # NoGroup /\ group[g]._element = 3
        /\ parentElement[3] = Null
        /\ group[g]._container = None
        /\ Purged(c, g)
        /\ Cardinality(cont[c]._groups) = 2
        /\ Settled(St, c)
        /\ cont[c]._prevFirst # None

\* The layer keeps the walk out: it has an id other than the tracked one
\* and is not always accessible.
Blocked(layer) ==
    /\ layer.present
    /\ layer.userId # currentLayerId
    /\ ~layer.alwaysAccessible

\* This step is a findFirst with layering not ignored.
FindFirstStep ==
    /\ obs'.op = "findFirst"
    /\ ~obs'.flags.ignoreLayer

\* The context of the findFirst of this step carries active layer itself.
ContextLayer == ahLayer[obs'.container]
OnLayer == ContextLayer.present /\ ContextLayer.active

\* A node beneath the context is focusable, and the context's layer is the
\* nearest one of every node on the way down to it.
FocusableBeneath ==
    \E n \in Subtree(St, obs'.container) \ {obs'.container} :
        /\ isFocusable(St, n, obs'.flags.includeProgrammaticallyFocusable, FALSE)
        /\ \A m \in Subtree(St, obs'.container) \ {obs'.container} :
               contains(St, m, n) => getLayerFor(St, m) = ContextLayer

\* C8 as stated: with layering not ignored, findFirst never returns a node
\* whose nearest enclosing layer has an id other than the tracked current
\* layer id, and findFirst on the subtree of such a layer returns null,
\* unless the layer is always accessible: then a focusable node beneath it
\* is returned (grouping ignored).
C8_FindFirstBlockedLayer ==
    [][FindFirstStep =>
          /\ obs'.result # Null => ~Blocked(getLayerFor(St, obs'.result))
          /\ (OnLayer /\ Blocked(ContextLayer)) => obs'.result = Null
          /\ (OnLayer /\ ContextLayer.alwaysAccessible /\ obs'.flags.ignoreGroup
                /\ FocusableBeneath) => obs'.result # Null]_vars

\* C8 amended: the same while a current layer id is tracked (with none
\* tracked no layer keeps the walk out), except that findFirst on the
\* subtree of such a layer returns null when every child of the layer's
\* node has that layer or another one that keeps the walk out as its
\* nearest layer; a child that carries a layer of its own with the tracked
\* id, or an always-accessible one, is walked.
C8_FindFirstBlockedChildren ==
    [][(FindFirstStep /\ currentLayerId # None) =>
          /\ obs'.result # Null => ~Blocked(getLayerFor(St, obs'.result))
          /\ (OnLayer /\ Blocked(ContextLayer)
                /\ \A ch \in Children(St, obs'.container) :
                       Blocked(getLayerFor(St, ch))) => obs'.result = Null
          /\ (OnLayer /\ ContextLayer.alwaysAccessible /\ obs'.flags.ignoreGroup
                /\ FocusableBeneath) => obs'.result # Null]_vars

\* findFirst on node 3, which carries a layer other than the current one,
\* returned null although node 6 beneath it is focusable.
C8_Witness ==
    /\ obs.op = "findFirst" /\ obs.container = 3
    /\ ~obs.flags.ignoreLayer /\ obs.flags.ignoreGroup
    /\ currentLayerId # None
    /\ ahLayer[3].active /\ Blocked(ahLayer[3])
    /\ isFocusable(St, 6, FALSE, FALSE)
    /\ obs.result = Null

\* The nodes beneath root in document order.
RECURSIVE Preorder(_, _)
Preorder(n, kids) ==
    IF kids = <<>> THEN <<n>>
    ELSE Preorder(n, SubSeq(kids, 1, Len(kids) - 1))
         \o Preorder(kids[Len(kids)], SetToSeq(Children(St, kids[Len(kids)])))

DocOrder(root) == Preorder(root, SetToSeq(Children(St, root)))

\* a and b have the same nearest Group and the same nearest layer.
SameRegion(a, b) ==
    /\ _findGroup(St, a) = _findGroup(St, b)
    /\ getLayerFor(St, a) = getLayerFor(St, b)

\* No grouping or layer boundary between x and the later node y: every
\* node after x up to y is in x's Group and layer.
NoBoundary(root, x, y) ==
    LET order == DocOrder(root)
        px == CHOOSE i \in 1..Len(order) : order[i] = x
        py == CHOOSE i \in 1..Len(order) : order[i] = y
    IN \A i \in (px + 1)..py : SameRegion(x, order[i])

\* This step is a findNext that returned a node.
FindNextStep == obs'.op = "findNext" /\ obs'.result # Null

\* findPrev from the node this step's findNext returned, same arguments.
FindPrevBack ==
    findPrev(St, obs'.result, obs'.container,
             obs'.flags.includeProgrammaticallyFocusable,
             obs'.flags.ignoreLayer, obs'.flags.ignoreGroup)

\* C9 as stated: on a fixed tree and group and layer state, when
\* findNext(x) returns a node y and no grouping or layer boundary lies
\* between x and y, findPrev(y) returns x.
C9_FindPrevOfFindNext ==
    [][(FindNextStep /\ NoBoundary(obs'.container, obs'.calls[1], obs'.result))
          => FindPrevBack = obs'.calls[1]]_vars

\* C9 amended: the same when x is itself a node the walk accepts (a
\* focusable node other than the context, passing the layer and group
\* tests): findPrev never returns a node the walk does not accept.
C9_FindPrevOfFindNextAccepted ==
    [][(/\ FindNextStep
        /\ obs'.calls[1] # obs'.container
        /\ _acceptElement(St, obs'.calls[1], "focusable",
                          obs'.flags.includeProgrammaticallyFocusable,
                          obs'.flags.ignoreLayer, obs'.flags.ignoreGroup) = "ACCEPT"
        /\ NoBoundary(obs'.container, obs'.calls[1], obs'.result))
          => FindPrevBack = obs'.calls[1]]_vars

\* findNext went from node 5 to node 6 inside the Group of node 3, grouping
\* and layering not ignored, both under one layer that lets the walk in.
C9_Witness ==
    /\ obs.op = "findNext" /\ obs.calls = <<5>> /\ obs.result = 6
    /\ ~obs.flags.ignoreLayer /\ ~obs.flags.ignoreGroup
    /\ ahGroup[3] # None
    /\ getLayerFor(St, 5).present /\ getLayerFor(St, 5) = getLayerFor(St, 6)
    /\ findPrev(St, 6, obs.container, obs.flags.includeProgrammaticallyFocusable,
                FALSE, FALSE) = 5

\* This step is the scroll quiet-period timer firing.
ScrollTimerStep ==
    /\ engine._scrollTimer
    /\ ~engine'._scrollTimer
    /\ obs'.op = "scroll"

\* How often the step requested a visibility refresh of Container c.
Refreshes(c) == Cardinality({i \in 1..Len(obs.calls) : obs.calls[i] = c})

\* Container c is live and its node lies in a buffered scroll source.
Scrolled(c) ==
    /\ c \in containers
    /\ \E t \in SeqToSet(engine._scrollTargets) : contains(St, t, cont[c]._element)

\* C10: when the scroll quiet-period timer fires, a visibility refresh is
\* requested exactly once for every live Container whose node is contained
\* in a buffered scroll source (sources forwarded from the embedded
\* document included) and for no other Container; the refresh is pending
\* afterwards and the buffer is empty.
C10_OneRefreshPerScrolledContainer ==
    [][ScrollTimerStep =>
          /\ engine'._scrollTargets = << >>
          /\ \A c \in ContainerIds :
                IF Scrolled(c)
                THEN Refreshes(c)' = 1 /\ cont'[c]._updateVisibleTimer
                ELSE /\ Refreshes(c)' = 0
                     /\ cont'[c]._updateVisibleTimer = cont[c]._updateVisibleTimer]_vars

\* The timer fired over a source forwarded from the embedded document: the
\* Container in that document was refreshed once, the one on the body not
\* at all.
C10_Witness ==
    /\ obs.op = "scroll"
    /\ Len(obs.calls) = 1
    /\ cont[obs.calls[1]]._element = IFrameBody
    /\ cont[obs.calls[1]]._updateVisibleTimer
    /\ \E c \in containers : c # obs.calls[1] /\ ~cont[c]._updateVisibleTimer

\* Everything but the record of the last call and the count of operations.
ProgramVars ==
    <<parentElement, nodeAttrs, ahGroup, ahContainer, ahFocusable, ahLayer,
      currentLayerId, lastGroupId, lastContainerId, group, cont, containers,
      focusedGroups, engine, pending>>

\* The step changes no Group, no Container, no membership, no pointer and no
\* timer, and leaves no mutation signal in flight or handled.
NothingChanged == UNCHANGED ProgramVars

\* C11: addGroup(node, props) on a node that already owns a Group raises an
\* error, and the call that raised created no Group or Container, changed no
\* membership or pointer and dispatched no mutation signal.
C11_AddGroupOnOwnerThrows ==
    [][/\ \A element \in Nodes, props \in PropsChoices :
              ahGroup[element] # None
                  => Focusable_addGroup(St, element, props).obs.op = "throw"
       /\ obs'.op = "throw" => NothingChanged]_vars

\* An addGroup call has just raised on a page that has Groups, a Container
\* and a current Group.
C11_Witness ==
    /\ obs.op = "throw"
    /\ \E c \in containers : cont[c]._groups # {} /\ cont[c]._current # None

\* C12: removeGroup and moveGroup on a node that owns no Group, and
\* setGroupProps and setCurrentGroup on a node with no own or enclosing Group,
\* raise nothing, change no Group or Container state and dispatch no mutation
\* signal; also on the node of a Group that was removed before.
C12_MissingGroupNoOp ==
    [][/\ (/\ obs'.op \in {"removeGroup", "moveGroup"}
           /\ ahGroup[obs'.result] = None) => NothingChanged
       /\ (/\ obs'.op \in {"setGroupProps", "setCurrentGroup"}
           /\ obs'.result # Null
           /\ _findGroup(St, obs'.result) = None) => NothingChanged]_vars

\* moveGroup was just called on a node that owns no Group and is the node of
\* a Group removed earlier, while the page has other Groups.
C12_Witness ==
    /\ obs.op = "moveGroup"
    /\ ahGroup[obs.result] = None
    /\ \E g \in GroupIds : group[g]._element = obs.result
    /\ \E n \in Nodes : ahGroup[n] # None

\* C13: a Container is created when a node first acquires a child Group and
\* its parent has none, and it is disposed when its last member is removed
\* unless container-level properties were set on it: once the signals are
\* handled and the passes have run, every registered Container that has no
\* explicit properties has at least one member.
C13_NoEmptyContainerWithoutProps ==
    \A c \in containers :
        (Settled(St, c) /\ ~cont[c]._props) => cont[c]._groups # {}

\* This step is one of the four sibling-Group scans.
FindGroupStep ==
    obs'.op \in {"findFirstGroup", "findLastGroup", "findNextGroup", "findPrevGroup"}

\* Node n is focusable, or a focusable node beneath it can be reached by a
\* walk from n that ignores grouping: no node on the way down to it, itself
\* included, is kept out by a modality layer.
HasFocusableTarget(n) ==
    \/ isFocusable(St, n, FALSE, FALSE)
    \/ \E d \in Subtree(St, n) \ {n} :
          /\ isFocusable(St, d, FALSE, FALSE)
          /\ \A a \in SeqToSet(Ancestors(St, d)) :
                 (a # n /\ contains(St, n, a)) => LayerAllows(St, a, FALSE)

\* The siblings a scan looks at, for the node cur of the context's Group.
ScanRange(op, cur) ==
    {n \in Children(St, parentElement[cur]) :
        \/ op \in {"findFirstGroup", "findLastGroup"}
        \/ op = "findNextGroup" /\ n > cur
        \/ op = "findPrevGroup" /\ n < cur}

\* Candidate a comes before candidate b in the order the scan takes.
ScannedBefore(op, a, b) ==
    IF op \in {"findFirstGroup", "findNextGroup"} THEN a < b ELSE a > b

\* C14: the sibling-Group scans return only a direct child of the container
\* node of the context's Group that owns a Group and is focusable or has a
\* focusable node beneath it (nested grouping ignored); a candidate with no
\* reachable focusable target is skipped and the scan goes on: every sibling
\* passed over before the returned node owns no Group, has no reachable
\* focusable target or, when layering is not ignored, is not accessible,
\* and null is returned when no sibling in the range of the scan qualifies.
C14_GroupScanSkipsEmptyGroups ==
    [][FindGroupStep =>
          LET cur == findGroup(St, obs'.container)
              r == obs'.result
              hasContainer == /\ cur # Null
                              /\ parentElement[cur] # Null
                              /\ ahContainer[parentElement[cur]] # None
              range == IF hasContainer THEN ScanRange(obs'.op, cur) ELSE {}
              passed == IF r = Null THEN range
                        ELSE {n \in range : ScannedBefore(obs'.op, n, r)}
          IN /\ r # Null =>
                    /\ r \in range
                    /\ cont[ahContainer[parentElement[cur]]]._element = parentElement[r]
                    /\ ahGroup[r] # None
                    /\ HasFocusableTarget(r)
             /\ \A n \in passed :
                    \/ ahGroup[n] = None
                    \/ ~HasFocusableTarget(n)
                    \/ ~obs'.flags.ignoreLayer /\ ~isAccessible(St, n)]_vars

\* findNextGroup from the first Group has just passed over the Group of node
\* 3, which has focusable nodes beneath it that no walk can reach, and
\* returned node 4.
C14_Witness ==
    /\ obs.op = "findNextGroup"
    /\ obs.container = 2
    /\ obs.result = 4
    /\ ahGroup[3] # None
    /\ \E d \in {5, 6} : nodeAttrs[d].matches
    /\ ~HasFocusableTarget(3)

\* The member Groups of container c whose node is, after this step, the
\* first (last) child of the container's node that is the node of a member.
MembersAtEnd(c, atEnd(_)) ==
    LET nodes == {group'[g]._element : g \in cont'[c]._groups}
                     \cap {n \in Nodes : parentElement'[n] = cont'[c]._element}
    IN IF nodes = {} THEN {None}
       ELSE {g \in cont'[c]._groups : group'[g]._element = atEnd(nodes)}

\* C15: after moveTo(newNode) with newNode different from the Group's node,
\* the Group is a member of the Container of newNode's parent (created if
\* there was none) and of no other Container, and that Container's first
\* and last are the members on its first and last member nodes; moveTo with
\* the unchanged node changes nothing.
C15_MoveToReattaches ==
    [][(/\ obs'.op = "moveGroup"
        /\ ahGroup[obs'.result] # None
        /\ parentElement[obs'.container] # Null) =>
          LET g == ahGroup[obs'.result]
              to == obs'.container
              c == ahContainer'[parentElement[to]]
          IN IF group[g]._element = to
             THEN NothingChanged
             ELSE /\ group'[g]._element = to
                  /\ c # None
                  /\ c \in containers'
                  /\ \A d \in ContainerIds : g \in cont'[d]._groups <=> d = c
                  /\ cont'[c]._first \in MembersAtEnd(c, Min)
                  /\ cont'[c]._last \in MembersAtEnd(c, Max)]_vars

\* This step is no timer callback of a Container.
CallStep == obs'.op \notin {"onChange", "updateVisible"}

\* This step added a Group to container c or removed one from it.
MembershipMutated(c) ==
    CallStep /\ cont'[c]._groups # cont[c]._groups

\* This step called setCurrentGroup on container c, or changed its focused
\* or its unlimited Group, and left its membership alone.
PointerMutated(c) ==
    /\ CallStep
    /\ cont'[c]._groups = cont[c]._groups
    /\ \/ cont'[c]._focused # cont[c]._focused
       \/ cont'[c]._unlimited # cont[c]._unlimited
       \/ /\ obs'.op = "setCurrentGroup"
          /\ IF obs'.container # None THEN obs'.container = c
             ELSE \E i \in 1..Len(obs'.calls) : group[obs'.calls[i]]._container = c

\* This step is the visibility pass (the change pass) of container c.
VisiblePassOf(c) == obs'.op = "updateVisible" /\ obs'.container = c
ChangePassOf(c) == obs'.op = "onChange" /\ obs'.container = c

\* Container c has at most one callback of each timer pending.
AtMostOnePending(c) ==
    /\ cont[c].onChangeCallbacks <= 1
    /\ cont[c].updateVisibleCallbacks <= 1

\* C16 as stated: each Container has at most one visibility callback and at
\* most one change callback pending; after each of the synchronous mutations
\* (addGroup, removeGroup, setCurrentGroup, setFocusedGroup,
\* setUnlimitedGroup) exactly one callback of each kind is pending, however
\* many mutations came before it, and a pass schedules no further pass, so
\* that the mutations of one turn are followed by exactly one visibility
\* pass and exactly one notification pass.
C16_OnePassOfEachKind ==
    [][\A c \in ContainerIds :
          /\ AtMostOnePending(c)'
          /\ (MembershipMutated(c) \/ PointerMutated(c)) =>
                /\ cont'[c].onChangeCallbacks = 1
                /\ cont'[c].updateVisibleCallbacks = 1
          /\ (VisiblePassOf(c) \/ ChangePassOf(c)) =>
                /\ cont'[c].onChangeCallbacks <= cont[c].onChangeCallbacks
                /\ cont'[c].updateVisibleCallbacks <= cont[c].updateVisibleCallbacks]_vars

\* C16, amended: each Container has at most one visibility callback and at
\* most one change callback pending.  addGroup and removeGroup leave exactly
\* one of each pending; setCurrentGroup, setFocusedGroup and
\* setUnlimitedGroup leave exactly one change callback pending and schedule
\* no visibility pass.  The change pass schedules nothing; the visibility
\* pass schedules a further change pass exactly when the classification of
\* a member changed and no change callback is pending.
C16_PassesCoalesce ==
    [][\A c \in ContainerIds :
          /\ AtMostOnePending(c)'
          /\ MembershipMutated(c) =>
                /\ cont'[c].onChangeCallbacks = 1
                /\ cont'[c].updateVisibleCallbacks = 1
          /\ PointerMutated(c) =>
                /\ cont'[c].onChangeCallbacks = 1
                /\ cont'[c].updateVisibleCallbacks = cont[c].updateVisibleCallbacks
          /\ ChangePassOf(c) =>
                /\ cont'[c].onChangeCallbacks = 0
                /\ cont'[c].updateVisibleCallbacks = cont[c].updateVisibleCallbacks
          /\ VisiblePassOf(c) =>
                /\ cont'[c].updateVisibleCallbacks = 0
                /\ cont'[c].onChangeCallbacks =
                       IF cont'[c]._visibleGroups # cont[c]._visibleGroups
                       THEN 1 ELSE cont[c].onChangeCallbacks]_vars

\* A Container with two or more members had a change pass, and its
\* visibility pass has just found the members' visibility changed and
\* scheduled a further change pass, the only callback now pending.
C16_Witness ==
    \E c \in containers :
        /\ obs.op = "updateVisible" /\ obs.container = c
        /\ Cardinality(cont[c]._groups) >= 2
        /\ cont[c]._prevFirst # None
        /\ ~cont[c].sameVisibleObject
        /\ cont[c].onChangeCallbacks = 1
        /\ cont[c].updateVisibleCallbacks = 0

\* C17: in every change pass of a Container, for the members that have a
\* change callback and were members at the previous pass, the callback is
\* invoked exactly for those whose getState result differs from what it was
\* at the previous pass.
C17_NotifiedExactlyChanged ==
    [][\A c \in ContainerIds :
          ChangePassOf(c) =>
              \A g \in cont'[c]._groups :
                  (/\ group[g]._props.onChange
                   /\ cont[c].statesAtPass[g] # AbsentState)
                  => (g \in SeqToSet(obs'.calls)
                         <=> cont'[c].statesAtPass[g] # cont[c].statesAtPass[g])]_vars

\* The child nodes of container c's node that are the node of a member.
MemberNodes(c) ==
    {n \in Children(St, cont[c]._element) :
        \E g \in cont[c]._groups : group[g]._element = n}

\* The member on the nearest member node among side, None if side is empty;
\* nearest picks the node of side that is closest to current's node.
NearestMember(c, side, nearest(_)) ==
    IF side = {} THEN None
    ELSE CHOOSE g \in cont[c]._groups : group[g]._element = nearest(side)

\* C18: in every reachable state in which a Container has a current Group
\* (a member whose node is a child of the Container's node), previous is the
\* member on the nearest member sibling node before current's node and next
\* the one on the nearest member sibling node after it, undefined where
\* there is none.
C18_PrevNextAroundCurrent ==
    \A c \in containers :
        LET current == cont[c]._current
        IN (/\ current # None
            /\ current \in cont[c]._groups
            /\ group[current]._element \in MemberNodes(c))
           => LET e == group[current]._element
              IN /\ cont[c]._prev =
                       NearestMember(c, {n \in MemberNodes(c) : n < e}, Max)
                 /\ cont[c]._next =
                       NearestMember(c, {n \in MemberNodes(c) : n > e}, Min)

\* C19: a Group that is no member of a Container receives no change
\* callback from that Container's change pass, also when a pointer or a
\* snapshot pointer of the Container still references it: every callback of
\* a pass goes to a member, and none goes to a Group the pass found on its
\* list of changed Groups without finding it in the membership set.
C19_NoCallbackForNonMember ==
    [][\A c \in ContainerIds :
          ChangePassOf(c) =>
              /\ SeqToSet(obs'.calls) \subseteq cont[c]._groups
              /\ SeqToSet(obs'.calls) \cap obs'.dropped = {}]_vars

\* A change pass has just run that found a Group with a change callback on
\* its list through a pointer or snapshot, although the Group had left the
\* Container, and that invoked the callback of a member.
C19_Witness ==
    \E c \in containers, g \in GroupIds :
        /\ obs.op = "onChange" /\ obs.container = c
        /\ g \in obs.dropped
        /\ g \notin cont[c]._groups
        /\ group[g]._props.onChange
        /\ obs.calls # <<>>

\* The current pointer of container c references a Group that is no member.
StaleCurrent(c) ==
    /\ cont[c]._current # None
    /\ cont[c]._current \notin cont[c]._groups

\* C20: when the current pointer of a Container references a Group that is
\* no longer a member, getCurrentGroup returns null and leaves the pointer
\* undefined, and getGroupState reports for every remaining member the
\* isCurrent it would report with no current set.
C20_StaleCurrentReadsAsUndefined ==
    \A c \in containers :
        StaleCurrent(c) =>
            /\ getCurrentGroup_result(St, c) = Null
            /\ getCurrentGroup(St, c).cont[c]._current = None
            /\ \A g \in cont[c]._groups :
                   getGroupState(St, c, g).isCurrent =
                       getGroupState([St EXCEPT !.cont[c]._current = None], c, g).isCurrent

\* isCurrent as the description of getState gives it for Group g.
IsCurrentAsDescribed(g) ==
    LET c == group[g]._container
        vis == cont[c]._visibleGroups
    IN IF c = None THEN "undefined"
       ELSE IF cont[c]._current # None
            THEN (IF cont[c]._current = g THEN "true" ELSE "false")
            ELSE IF /\ group[g]._props.lookupVisibility # Invisible
                    /\ \/ vis[g] = Invisible
                       \/ /\ vis[g] = PartiallyVisible
                          /\ \E h \in cont[c]._groups : vis[h] = Visible
                 THEN "false"
                 ELSE "undefined"

\* C21: getState(g).isCurrent is true or false according to whether g is
\* the current Group when the Container has one; with no current it is
\* undefined, except that it is false when g's visibility lookup is not
\* disabled and g is invisible, or partially visible while some member is
\* fully visible; a Group with no Container reports undefined.
C21_IsCurrent ==
    \A g \in GroupIds :
        group[g] # NoGroup => getState(St, g).isCurrent = IsCurrentAsDescribed(g)

\* This step processed a focus change to a node.
FocusStep == obs'.op = "focus" /\ obs'.result # Null

\* Group g is the unlimited Group of the Container it is bound to.
IsUnlimitedGroup(g) ==
    /\ group[g]._container # None
    /\ cont[group[g]._container]._unlimited = g

\* C22: after a focus change to node n is processed, the tracked
\* focused-group set is exactly the set of Groups enclosing n; every Group
\* of the previous chain that is not in the new one reports hasFocus false
\* and is not the unlimited Group of its Container; every Group of the new
\* chain reports hasFocus true.
C22_FocusChainReplaced ==
    [][FocusStep =>
          /\ focusedGroups' = EnclosingGroups(St, obs'.result)
          /\ \A g \in focusedGroups \ focusedGroups' :
                 /\ ~getState(St, g)'.hasFocus
                 /\ ~IsUnlimitedGroup(g)'
          /\ \A g \in focusedGroups' : getState(St, g)'.hasFocus]_vars

\* Group g, bound to a Container, is new in the focus chain of this focus
\* step and was not the unlimited Group of its Container before it.
EntersFocusChain(g) ==
    /\ FocusStep
    /\ g \in focusedGroups' \ focusedGroups
    /\ group[g]._container # None
    /\ ~IsUnlimitedGroup(g)

\* The first-focusable entry point of Group g: its node when that is
\* focusable, otherwise the first focusable node beneath it.
EntryPoint(g) == _getGroupFirst(St, group[g]._element, TRUE)

\* C23: on a focus change to node n, a Group newly in the focus chain
\* becomes the unlimited Group of its Container if and only if its mode is
\* Limited or LimitedTrapFocus and n is not the Group's first-focusable
\* entry point; when n is the entry point the limit is not lifted.
C23_UnlimitedUnlessEntryPoint ==
    [][\A g \in GroupIds :
          EntersFocusChain(g) =>
              (IsUnlimitedGroup(g)' <=>
                  (/\ IsLimitedMode(group[g]._props)
                   /\ obs'.result # EntryPoint(g)))]_vars

\* C24: a focus change to nothing is a no-op: the tracked focused-group
\* set, the focused and unlimited pointers of every Container and all
\* pending timers are as before, and so is everything else.
C24_FocusOnNothingNoOp ==
    [][(obs'.op = "focus" /\ obs'.result = Null) => NothingChanged]_vars

\* Focus has just moved to nothing while a Limited Group was focused and
\* unlimited and the change pass of its Container was pending.
C24_Witness ==
    /\ obs.op = "focus" /\ obs.result = Null
    /\ \E g \in focusedGroups :
           /\ IsUnlimitedGroup(g)
           /\ cont[group[g]._container]._focused = g
           /\ cont[group[g]._container].onChangeCallbacks = 1

\* This step is the scroll handler hearing a signal; obs'.result is its source.
ScrollSignalStep == obs'.op = "onScroll"

\* How often node t occurs in the buffer q.
Occurrences(q, t) == Cardinality({i \in 1..Len(q) : q[i] = t})

\* C25: a scroll signal leaves exactly one timer callback pending, its source
\* in the buffer exactly once and every Container untouched (no visibility
\* refresh is requested or pending that was not before); the timer firing
\* requests at most one refresh per Container, empties the buffer and leaves
\* no callback pending.
C25_ScrollDebounced ==
    [][/\ ScrollSignalStep =>
             /\ engine'._scrollTimer
             /\ engine'.scrollCallbacks = 1
             /\ Occurrences(engine'._scrollTargets, obs'.result) = 1
             /\ cont' = cont
       /\ ScrollTimerStep =>
             /\ engine'._scrollTargets = << >>
             /\ engine'.scrollCallbacks = 0
             /\ \A c \in ContainerIds : Refreshes(c)' <= 1]_vars

\* The names setupFocusableInIFrame asks the dispatcher of the embedded
\* document to forward (lines 1087-1090).
ForwardedNames == {"mutation", "scroll"}

\* The custom events the owning window can receive: with or without target
\* details, under a forwarded name or another one, about a node of the
\* embedded document and, for a mutation, a live Group of that document.
ForwardedEvents ==
    [targetDetails : BOOLEAN, name : ForwardedNames \cup {"focusin"},
     target : {IFrameBody, 8},
     group : {None} \cup {g \in GroupIds : group[g] # NoGroup /\ InIFrame(group[g]._element)},
     removed : BOOLEAN, isNode : BOOLEAN]

GroupInGroupPage(inner) ==
    LET s1 == Focusable_addGroup(_init(Fresh), 2, PlainProps)
        s2 == Focusable_addGroup(s1, 3, LimitedProps)
        s3 == Focusable_addGroup(s2, inner, PlainProps)
    IN Settle(Settle(s3, s3.ahContainer[Body]), s3.ahContainer[3])

\* The page, with the inner Group on node 5 or on node 6, after a Group was
\* made current or took focus, and after moveGroup(5, 4) took the inner
\* Group to node 4, the Container of the body ran its passes again and
\* setCurrentGroup(5) was called.
GroupInGroupStates ==
    LET made(p) == {p,
                    Focusable_setCurrentGroup(p, 2),
                    Focusable_setCurrentGroup(p, 5),
                    _onFocus(p, 6),
                    _onFocus(p, 5),
                    _onFocus(Focusable_setCurrentGroup(p, 2), 6)}
        moved == {Settle(Focusable_moveGroup(p, 5, 4), p.ahContainer[Body]) :
                     p \in made(GroupInGroupPage(5))}
    IN UNION {made(GroupInGroupPage(inner)) : inner \in {5, 6}}
           \cup moved \cup {Focusable_setCurrentGroup(p, 5) : p \in moved}

\* The find operations on the pages with a Group inside a Group.
InitFindNested == \E p \in GroupInGroupStates : StateIs(Quiet(p))

SpecFindNested == InitFindNested /\ [][NextFind]_vars

\* This step is one of the five find operations.
FindStep == obs'.op \in {"findFirst", "findLast", "findNext", "findPrev", "findDefault"}

\* The find operation of this step, run on state s with the step's arguments.
FindAgain(s) ==
    _findElement(s, obs'.container,
                 IF obs'.calls = << >> THEN Null ELSE obs'.calls[1],
                 obs'.flags.includeProgrammaticallyFocusable,
                 obs'.flags.ignoreLayer, obs'.flags.ignoreGroup,
                 obs'.op \in {"findLast", "findPrev"},
                 IF obs'.op = "findDefault" THEN "default" ELSE "focusable")

\* The state with every Group taken off its node.
WithoutGroups == [St EXCEPT !.ahGroup = [n \in Nodes |-> None]]

\* C27: a find operation with grouping not ignored returns no node one of
\* whose enclosing Groups, the nearest or an outer one, reports isCurrent
\* false; with grouping ignored it returns what it returns on the same page
\* without any Group.
C27_NoResultUnderNonCurrentGroup ==
    [][FindStep =>
          /\ (~obs'.flags.ignoreGroup /\ obs'.result # Null) =>
                 \A g \in EnclosingGroups(St, obs'.result) :
                     getState(St, g).isCurrent # "false"
          /\ obs'.flags.ignoreGroup => obs'.result = FindAgain(WithoutGroups)]_vars

\* Group g is in Limited or LimitedTrapFocus mode and is not the unlimited
\* Group of its Container.
HoldsLimit(g) ==
    /\ IsLimitedMode(group[g]._props)
    /\ group[g]._container # None => cont[group[g]._container]._unlimited # g

\* C28: a find operation with grouping not ignored returns no node inside a
\* Group that holds its limit, the nearest or an outer one, other than a
\* node of the subtree of that Group's own first focusable node.
C28_OnlyEntryPointOfLimitedGroup ==
    [][(FindStep /\ ~obs'.flags.ignoreGroup /\ obs'.result # Null) =>
          \A g \in EnclosingGroups(St, obs'.result) :
              HoldsLimit(g) =>
                  LET first == _getGroupFirst(St, group[g]._element, TRUE)
                  IN first # Null /\ contains(St, first, obs'.result)]_vars

\* Container c was created and has been disposed.
Disposed(c) == c <= lastContainerId /\ c \notin containers

\* C29: a disposed Container has no timer callback pending, of the
\* visibility refresh or of the change propagation; no step is a pass of
\* it and no step changes its state.
C29_NoPassAfterDispose ==
    [][\A c \in ContainerIds :
          Disposed(c) =>
             /\ cont[c].updateVisibleCallbacks = 0
             /\ cont[c].onChangeCallbacks = 0
             /\ obs'.op \in {"updateVisible", "onChange"} => obs'.container # c
             /\ cont'[c] = cont[c]]_vars

\* This step is the visibility-refresh pass of Container c.
VisibilityPassStep(c) == obs'.op = "updateVisible" /\ obs'.container = c

\* The classification of the pass differs from the visibility mapping
\* for a member of Container c.
ClassifiedAnew(c) ==
    \E g \in cont[c]._groups : obs'.classified[g] # cont[c]._visibleGroups[g]

\* C30: after the visibility-refresh pass of a Container its visibility
\* mapping gives every member the classification of this pass and Invisible
\* (no entry) for every other Group; when a member's classification
\* differs from the mapping before the pass, the change timer is pending
\* afterwards and the old mapping is the prior snapshot; when none does,
\* the mapping, the prior snapshot and the change timer are as before.
C30_MappingIsClassification ==
    [][\A c \in ContainerIds :
          VisibilityPassStep(c) =>
             /\ \A g \in GroupIds :
                   cont'[c]._visibleGroups[g] =
                       IF g \in cont[c]._groups THEN obs'.classified[g] ELSE Invisible
             /\ IF ClassifiedAnew(c)
                THEN /\ cont'[c]._onChangeTimer
                     /\ cont'[c].onChangeCallbacks = 1
                     /\ cont'[c]._prevVisibleGroups = cont[c]._visibleGroups
                ELSE /\ cont'[c]._onChangeTimer = cont[c]._onChangeTimer
                     /\ cont'[c].onChangeCallbacks = cont[c].onChangeCallbacks
                     /\ cont'[c]._visibleGroups = cont[c]._visibleGroups
                     /\ cont'[c]._prevVisibleGroups = cont[c]._prevVisibleGroups
                     /\ cont'[c].sameVisibleObject = cont[c].sameVisibleObject]_vars

\* A pass classified a member partially visible that the mapping held fully
\* visible: the mapping follows and the change timer is pending.
C30_Witness ==
    /\ obs.op = "updateVisible"
    /\ \E g \in cont[obs.container]._groups :
          /\ obs.classified[g] = PartiallyVisible
          /\ cont[obs.container]._visibleGroups[g] = PartiallyVisible
          /\ cont[obs.container]._prevVisibleGroups[g] = Visible
    /\ cont[obs.container]._onChangeTimer

\* This step is removeGroup on a node that owns a Group, and the signal it
\* dispatches finds the engine listening.
RemoveGroupStep ==
    /\ obs'.op = "removeGroup"
    /\ ahGroup[obs'.result] # None
    /\ Heard(St, obs'.result)

\* C31: after removeGroup on a node that owns Group g, the node being
\* attached or not, g is in no Container's membership set, the node owns no
\* Group and no pointer of a Container references g.
C31_RemovedGroupIsGone ==
    [][RemoveGroupStep =>
          LET g == ahGroup[obs'.result]
          IN /\ ahGroup'[obs'.result] = None
             /\ \A c \in ContainerIds :
                   /\ g \notin cont'[c]._groups
                   /\ g \notin Pointers(cont'[c])]_vars

\* C32: in every reachable state a Group is bound to Container c exactly
\* when it is in the membership set of c, and no Group is in the membership
\* sets of two Containers.
C32_MembershipConsistent ==
    \A g \in GroupIds :
        /\ \A c \in ContainerIds :
              (group[g] # NoGroup /\ group[g]._container = c) <=> g \in cont[c]._groups
        /\ Cardinality({c \in ContainerIds : g \in cont[c]._groups}) <= 1

\* C33: once the passes of a Container have settled, its
\* _hasFullyVisibleGroup flag is set exactly when a member is classified
\* fully visible in its visibility mapping.
C33_FlagIsFullyVisibleMember ==
    \A c \in containers :
        Settled(St, c) =>
            (cont[c]._hasFullyVisibleGroup
                <=> \E g \in cont[c]._groups : cont[c]._visibleGroups[g] = Visible)

\* This step is the change-propagation pass of Container c.
ChangePassStep(c) == obs'.op = "onChange" /\ obs'.container = c

\* C34: in the change pass of a Container whose focused Group went from a
\* Group g to none since the previous pass, current, previous and next are
\* cleared when g does not memorize the current Group and kept when it
\* does; in a pass that finds a focused Group they are kept.
C34_FocusLossClearsCurrent ==
    [][\A c \in ContainerIds :
          ChangePassStep(c) =>
             LET cr == cont[c]
                 kept == /\ cont'[c]._current = cr._current
                         /\ cont'[c]._prev = cr._prev
                         /\ cont'[c]._next = cr._next
             IN /\ (cr._focused = None /\ cr._prevFocused # None) =>
                      IF group[cr._prevFocused]._props.memorizeCurrent
                      THEN kept
                      ELSE /\ cont'[c]._current = None
                           /\ cont'[c]._prev = None
                           /\ cont'[c]._next = None
                /\ cr._focused # None => kept]_vars

\* A pass found that focus had left a Group that memorizes the current
\* Group, and the current Group is still set.
C34_Witness ==
    \E c \in containers :
        /\ obs.op = "onChange" /\ obs.container = c
        /\ obs.lostFocus # None
        /\ group[obs.lostFocus]._props.memorizeCurrent
        /\ cont[c]._focused = None
        /\ cont[c]._current # None

\* C35: a change pass of a Container invokes the callback of every member
\* with a callback for which a visibility pass has found a new
\* classification since the member's callback was last invoked, and the
\* state it hands over carries the classification of the visibility mapping.
C35_DetectedChangeDelivered ==
    [][\A c \in ContainerIds :
          ChangePassStep(c) =>
             \A g \in cont[c].detected :
                 (g \in cont[c]._groups /\ group[g]._props.onChange) =>
                    /\ g \in SeqToSet(obs'.calls)
                    /\ cont'[c].statesAtPass[g].isVisible = cont[c]._visibleGroups[g]]_vars


\* This step is findLast.
FindLastStep == obs'.op = "findLast"

\* The last node of the forward walk that continues from node current with
\* findNext until it returns null; budget bounds the walk by the size of
\* the tree.
RECURSIVE ForwardWalkEnd(_, _, _, _)
ForwardWalkEnd(current, context, fl, budget) ==
    LET next == findNext(St, current, context, fl.includeProgrammaticallyFocusable,
                         fl.ignoreLayer, fl.ignoreGroup)
    IN IF next = Null \/ budget = 0 THEN current
       ELSE ForwardWalkEnd(next, context, fl, budget - 1)

\* The last node of findFirst followed by findNext until null, Null when
\* findFirst returns null.
ForwardLast(context, fl) ==
    LET first == findFirst(St, context, fl.includeProgrammaticallyFocusable,
                           fl.ignoreLayer, fl.ignoreGroup)
    IN IF first = Null THEN Null
       ELSE ForwardWalkEnd(first, context, fl, Cardinality(Nodes))

\* C36: on a fixed tree and group and layer state, findLast(context) returns
\* the last node of the forward walk (findFirst, then findNext until it
\* returns null), and null exactly when findFirst returns null, for every
\* setting of ignoreLayer and ignoreGroup.
C36_FindLastIsForwardLast ==
    [][FindLastStep => obs'.result = ForwardLast(obs'.container, obs'.flags)]_vars


\* This step is a timer of a Container firing, not a handler of the engine.
ContainerTimerStep == obs'.op \in {"updateVisible", "onChange"}

\* C37: once the Focus Engine is disposed no step registers a listener or
\* the focus subscription or leaves the initialisation or scroll timer
\* armed, and no step of the engine's handlers changes the membership of a
\* Container or arms one of its timers.
C37_DisposedEngineIsInert ==
    [][engine.disposed =>
          /\ ~engine'._initTimer
          /\ ~engine'._scrollTimer /\ engine'.scrollCallbacks = 0
          /\ engine'.listenMutation => engine.listenMutation
          /\ engine'.listenIFrame => engine.listenIFrame
          /\ engine'.listenScroll => engine.listenScroll
          /\ engine'.subscribed => engine.subscribed
          /\ ContainerTimerStep \/
                \A c \in ContainerIds :
                    /\ cont'[c]._groups = cont[c]._groups
                    /\ cont'[c].updateVisibleCallbacks <= cont[c].updateVisibleCallbacks
                    /\ cont'[c].onChangeCallbacks <= cont[c].onChangeCallbacks]_vars

=============================================================================
